---- MODULE Spec2Model ----
(***************************************************************************)
(* The runtime task-graph state machine of evergreen (model/task_lifecycle *)
(* and model/commitqueue): task finalisation, blocking propagation over    *)
(* the dependency graph, build/version/patch status aggregation, task      *)
(* reset, and the commit queue's ordered item list.                        *)
(*                                                                         *)
(* The tasks of the task-graph specification are plain host tasks: none is *)
(* a display task, an execution task or a member of a task group.  Display *)
(* tasks, single-host task groups and the merge tasks of the commit queue  *)
(* have specifications of their own further down.  No task is a GitHub     *)
(* check, and the project has stepback switched off.                       *)
(***************************************************************************)
EXTENDS Integers, Sequences, FiniteSets, TLC

VARIABLES
    tasks,      \* task collection: task id -> task document
    builds,     \* build collection: build id -> build document
    versions,   \* version collection: version id -> version document
    patches,    \* patch collection: version id -> patch status ("" = no patch)
    events,     \* task id -> number of TASK_FINISHED events of its current execution
    agent,      \* task id -> what the worker running it has reported so far
    lastOp,     \* the operation performed by the last step
    queue,      \* CommitQueue.Queue of the handle the caller holds
    dbQueue,    \* the queue array of the stored commit queue document
    cqRet,      \* what the last commit queue call returned
    buildTasks, \* argument of getBuildStatus (pure-function specification)
    aggResult,  \* result of getBuildStatus over a permutation of buildTasks
    pc,         \* position of each concurrent recompute
    local       \* locals of each concurrent recompute

vars == <<tasks, builds, versions, patches, events, agent, lastOp,
          queue, dbQueue, cqRet, buildTasks, aggResult, pc, local>>

graphVars == <<tasks, builds, versions, patches, events, agent, lastOp>>
cqVars == <<queue, dbQueue, cqRet>>
aggVars == <<buildTasks, aggResult>>
concVars == <<pc, local>>

-----------------------------------------------------------------------------
(* Bounds of the model *)

MaxResets == 1      \* resets (archived executions) over all tasks
MaxReports == 2     \* end-task reports a worker sends for one execution

-----------------------------------------------------------------------------
(* Statuses *)

TaskUndispatched == "undispatched"
TaskInactive == "inactive"
TaskDispatched == "dispatched"
TaskStarted == "started"
TaskSucceeded == "success"
TaskFailed == "failed"
TaskSystemFailed == "system-failed"
TaskDescriptionNoResults == "expected test results, but none found"
AllStatuses == "*"

BuildCreated == "created"
BuildStarted == "started"
BuildFailed == "failed"
BuildSucceeded == "success"

VersionCreated == "created"
VersionStarted == "started"
VersionFailed == "failed"
VersionSucceeded == "success"

PatchCreated == "created"
PatchStarted == "started"
PatchFailed == "failed"
PatchSucceeded == "succeeded"

PatchVersionRequester == "patch_request"
RepotrackerVersionRequester == "gitter_request"

TaskFailureStatuses == {TaskFailed, TaskSystemFailed}

IsUnstartedTaskStatus(status) == status \in {TaskUndispatched, TaskInactive}

IsFailedTaskStatus(status) == status \in TaskFailureStatuses

IsFinishedTaskStatus(status) == status = TaskSucceeded \/ IsFailedTaskStatus(status)

IsFinishedBuildStatus(status) == status \in {BuildFailed, BuildSucceeded}

IsFinishedVersionStatus(status) == status \in {VersionFailed, VersionSucceeded}

IsPatchRequester(requester) == requester = PatchVersionRequester

VersionStatusToPatchStatus(versionStatus) ==
    CASE versionStatus = VersionCreated -> PatchCreated
      [] versionStatus = VersionStarted -> PatchStarted
      [] versionStatus = VersionFailed -> PatchFailed
      [] versionStatus = VersionSucceeded -> PatchSucceeded

-----------------------------------------------------------------------------
(* Task documents *)

VersionId == "v1"

\* the order in which a query returns the documents of the collection
TaskOrder ==
    <<"A", "A2", "B", "C", "DT", "E", "G1", "G2", "G3", "M1", "M2", "M3",
      "P1", "P2", "P3", "R1", "R2", "R3", "R4", "S1", "S2", "S3">>
BuildOrder == <<"b1", "b2", "b3">>

IsFinished(t) == IsFinishedTaskStatus(t.Status)

\* Task.Blocked: some dependency is unattainable and dependencies are not overridden
RECURSIVE anyUnattainable(_, _)
anyUnattainable(deps, i) ==
    IF i > Len(deps) THEN FALSE
    ELSE IF deps[i].Unattainable THEN TRUE
    ELSE anyUnattainable(deps, i + 1)

Blocked(t) ==
    IF t.OverrideDependencies THEN FALSE ELSE anyUnattainable(t.DependsOn, 1)

\* Task.IsAbortable
IsAbortable(t) == t.Status \in {TaskStarted, TaskDispatched}

\* Task.IsDispatchable
IsDispatchable(t) == t.Status = TaskUndispatched /\ t.Activated

\* Task.IsPartOfDisplay
IsPartOfDisplay(t) == t.DisplayTaskId # ""

HasExecutionTask(t, id) == \E i \in 1..Len(t.ExecutionTasks) : t.ExecutionTasks[i] = id

\* task.Find(task.ByIds(t.ExecutionTasks)): the ids of the execution tasks found
originalExecutionTasks(ts, t) == SelectSeq(t.ExecutionTasks, LAMBDA id : id \in DOMAIN ts)

\* Task.IsPartOfSingleHostTaskGroup
IsPartOfSingleHostTaskGroup(t) == t.TaskGroup # "" /\ t.TaskGroupMaxHosts = 1

HasEdge(t, id) == \E i \in 1..Len(t.DependsOn) : t.DependsOn[i].TaskId = id

-----------------------------------------------------------------------------
(* The task collection's queries and single-document updates *)

\* ts with the dependency edges of task id replaced by f(edge)
mapEdges(ts, id, f(_)) ==
    [ts EXCEPT ![id].DependsOn = [i \in 1..Len(ts[id].DependsOn) |-> f(ts[id].DependsOn[i])]]

idsWhere(ts, P(_)) == SelectSeq(TaskOrder, LAMBDA id : id \in DOMAIN ts /\ P(ts[id]))

\* the tasks depending on t whose edge onto it is not yet marked and requires a
\* status other than t's
FindAllUnmarkedBlockedDependencies(ts, id) ==
    LET okStatusSet == {AllStatuses, ts[id].Status}
    IN  idsWhere(ts, LAMBDA d : \E i \in 1..Len(d.DependsOn) :
                                   /\ d.DependsOn[i].TaskId = id
                                   /\ d.DependsOn[i].Status \notin okStatusSet
                                   /\ ~d.DependsOn[i].Unattainable)

\* the tasks whose edge onto t is marked unattainable
FindAllMarkedUnattainableDependencies(ts, id) ==
    idsWhere(ts, LAMBDA d : \E i \in 1..Len(d.DependsOn) :
                               /\ d.DependsOn[i].TaskId = id
                               /\ d.DependsOn[i].Unattainable)

MarkUnattainableDependency(ts, id, dependencyId, unattainable) ==
    mapEdges(ts, id, LAMBDA e : IF e.TaskId = dependencyId
                                THEN [e EXCEPT !.Unattainable = unattainable]
                                ELSE e)

RECURSIVE markFinishedFrom(_, _, _, _)
markFinishedFrom(ts, id, finished, i) ==
    IF i > Len(TaskOrder) THEN ts
    ELSE IF TaskOrder[i] \notin DOMAIN ts THEN markFinishedFrom(ts, id, finished, i + 1)
    ELSE markFinishedFrom(mapEdges(ts, TaskOrder[i],
                                   LAMBDA e : IF e.TaskId = id
                                              THEN [e EXCEPT !.Finished = finished]
                                              ELSE e),
                          id, finished, i + 1)

\* Task.MarkDependenciesFinished: the cached Finished flag of every edge onto t
MarkDependenciesFinished(ts, id, finished) == markFinishedFrom(ts, id, finished, 1)

NoDetails == [Status |-> "", Description |-> ""]

\* Task.MarkEnd: the single-document update recording the end of the task
TaskMarkEnd(ts, id, finishTime, detail) ==
    [ts EXCEPT ![id].Status = detail.Status,
               ![id].FinishTime = finishTime,
               ![id].Details = detail]

\* Task.MarkStart
TaskMarkStart(ts, id) == [ts EXCEPT ![id].Status = TaskStarted]

\* Task.MarkAsHostDispatched
MarkAsHostDispatched(ts, id) == [ts EXCEPT ![id].Status = TaskDispatched]

\* Task.Archive: the finished execution is copied to old_tasks, the execution
\* number is incremented and the abort is forgotten
Archive(ts, id) ==
    [ts EXCEPT ![id].Execution = @ + 1, ![id].Aborted = FALSE]

\* Task.Reset: back to an activated, undispatched task without results
TaskReset(ts, id) ==
    [ts EXCEPT ![id].Status = TaskUndispatched,
               ![id].Activated = TRUE,
               ![id].FinishTime = 0,
               ![id].Details = NoDetails,
               ![id].ResetWhenFinished = FALSE,
               ![id].HasCedarResults = FALSE,
               ![id].ResultCount = 0,
               ![id].FailedTests = FALSE]

\* Task.ActivateTask
ActivateTask(ts, id) == [ts EXCEPT ![id].Activated = TRUE]

\* Task.SetResetWhenFinished
SetResetWhenFinished(ts, id) == [ts EXCEPT ![id].ResetWhenFinished = TRUE]

\* task.FindTaskGroupFromBuild: the ids of the members of the group, in the
\* order of the group
FindTaskGroupFromBuild(ts, buildId, taskGroup) ==
    idsWhere(ts, LAMBDA t : t.BuildId = buildId /\ t.TaskGroup = taskGroup)

\* Task.HasFailedTests
HasFailedTests(t) == t.FailedTests

-----------------------------------------------------------------------------
(* Blocking propagation *)

RECURSIVE UpdateBlockedDependencies(_, _)
RECURSIVE blockEach(_, _, _, _)
RECURSIVE UpdateUnblockedDependencies(_, _)
RECURSIVE unblockEach(_, _, _, _)

\* the loop of UpdateBlockedDependencies over the dependents fetched on entry
blockEach(ts, id, dependentTasks, i) ==
    IF i > Len(dependentTasks) THEN ts
    ELSE LET marked == MarkUnattainableDependency(ts, dependentTasks[i], id, TRUE)
         IN  blockEach(UpdateBlockedDependencies(marked, dependentTasks[i]),
                       id, dependentTasks, i + 1)

\* a propagation that marks the direct dependents only
UpdateBlockedDependenciesDirectOnly(ts, id) ==
    LET dependentTasks == FindAllUnmarkedBlockedDependencies(ts, id)
    IN  [x \in DOMAIN ts |->
            IF \E i \in 1..Len(dependentTasks) : dependentTasks[i] = x
            THEN MarkUnattainableDependency(ts, x, id, TRUE)[x]
            ELSE ts[x]]

UpdateBlockedDependencies(ts, id) ==
    blockEach(ts, id, FindAllUnmarkedBlockedDependencies(ts, id), 1)

\* the loop of UpdateUnblockedDependencies over the dependents fetched on entry
unblockEach(ts, id, blockedTasks, i) ==
    IF i > Len(blockedTasks) THEN ts
    ELSE LET cleared == MarkUnattainableDependency(ts, blockedTasks[i], id, FALSE)
         IN  unblockEach(UpdateUnblockedDependencies(cleared, blockedTasks[i]),
                         id, blockedTasks, i + 1)

UpdateUnblockedDependencies(ts, id) ==
    unblockEach(ts, id, FindAllMarkedUnattainableDependencies(ts, id), 1)

-----------------------------------------------------------------------------
(* Aggregation *)

\* first loop of getBuildStatus: <<noStartedTasks, allTasksBlocked>>
RECURSIVE scanUnstarted(_, _, _)
scanUnstarted(bt, i, allTasksBlocked) ==
    IF i > Len(bt) THEN <<TRUE, allTasksBlocked>>
    ELSE IF ~IsUnstartedTaskStatus(bt[i].Status) THEN <<FALSE, FALSE>>
    ELSE scanUnstarted(bt, i + 1, allTasksBlocked /\ Blocked(bt[i]))

\* second loop of getBuildStatus
RECURSIVE scanRunning(_, _)
scanRunning(bt, i) ==
    IF i > Len(bt) THEN FALSE
    ELSE IF bt[i].Status = TaskStarted THEN TRUE
    ELSE IF bt[i].Activated /\ ~Blocked(bt[i]) /\ ~IsFinished(bt[i]) THEN TRUE
    ELSE scanRunning(bt, i + 1)

\* third loop of getBuildStatus
RECURSIVE scanFailed(_, _)
scanFailed(bt, i) ==
    IF i > Len(bt) THEN FALSE
    ELSE IF IsFailedTaskStatus(bt[i].Status) \/ bt[i].Aborted THEN TRUE
    ELSE scanFailed(bt, i + 1)

\* a getBuildStatus that looks for failures before it looks for running tasks
getBuildStatusFailedFirst(bt) ==
    LET first == scanUnstarted(bt, 1, TRUE)
    IN  IF first[1] \/ first[2]
        THEN [status |-> BuildCreated, allTasksBlocked |-> first[2]]
        ELSE IF scanFailed(bt, 1)
        THEN [status |-> BuildFailed, allTasksBlocked |-> FALSE]
        ELSE IF scanRunning(bt, 1)
        THEN [status |-> BuildStarted, allTasksBlocked |-> FALSE]
        ELSE [status |-> BuildSucceeded, allTasksBlocked |-> FALSE]

\* a getBuildStatus that leaves the deactivated tasks out
getBuildStatusOfActivated(bt) ==
    LET activated == SelectSeq(bt, LAMBDA t : t.Activated)
        first == scanUnstarted(activated, 1, TRUE)
    IN  IF first[1] \/ first[2]
        THEN [status |-> BuildCreated, allTasksBlocked |-> first[2]]
        ELSE IF scanRunning(activated, 1)
        THEN [status |-> BuildStarted, allTasksBlocked |-> FALSE]
        ELSE IF scanFailed(activated, 1)
        THEN [status |-> BuildFailed, allTasksBlocked |-> FALSE]
        ELSE [status |-> BuildSucceeded, allTasksBlocked |-> FALSE]

getBuildStatus(bt) ==
    LET first == scanUnstarted(bt, 1, TRUE)
        noStartedTasks == first[1]
        allTasksBlocked == first[2]
    IN  IF noStartedTasks \/ allTasksBlocked
        THEN [status |-> BuildCreated, allTasksBlocked |-> allTasksBlocked]
        ELSE IF scanRunning(bt, 1)
        THEN [status |-> BuildStarted, allTasksBlocked |-> FALSE]
        ELSE IF scanFailed(bt, 1)
        THEN [status |-> BuildFailed, allTasksBlocked |-> FALSE]
        ELSE [status |-> BuildSucceeded, allTasksBlocked |-> FALSE]

\* task.FindWithFields(task.ByBuildId(id), ...)
TasksOfBuild(ts, buildId) ==
    LET ids == idsWhere(ts, LAMBDA t : t.BuildId = buildId)
    IN  [i \in 1..Len(ids) |-> ts[ids[i]]]

\* the aborted flag of a build whose status changes: some task is aborted and
\* no task that is not aborted has a failure status
buildIsAborted(bt) ==
    /\ \E i \in 1..Len(bt) : bt[i].Aborted
    /\ ~\E i \in 1..Len(bt) : ~bt[i].Aborted /\ bt[i].Status \in TaskFailureStatuses

\* updateBuildStatus for the build document b the caller fetched; the result is
\* the build collection and the returned flag
\* the writes of updateBuildStatus, given the computed status got and flag
\* isAborted: SetAllTasksBlocked always, SetAborted and the status when the
\* status differs from that of the fetched document
setBuildStatus(bs, b, got, isAborted) ==
    IF got.status = b.Status
    THEN [builds |-> [bs EXCEPT ![b.Id].AllTasksBlocked = got.allTasksBlocked],
          changed |-> got.allTasksBlocked # b.AllTasksBlocked]
    ELSE [builds |-> [bs EXCEPT ![b.Id].AllTasksBlocked = got.allTasksBlocked,
                                ![b.Id].Aborted = IF isAborted # b.Aborted
                                                  THEN isAborted ELSE @,
                                ![b.Id].Status = got.status],
          changed |-> TRUE]

\* updateBuildStatus once the tasks bt of the build have been read
updateBuildStatusOf(bs, b, bt) ==
    setBuildStatus(bs, b, getBuildStatus(bt), buildIsAborted(bt))

updateBuildStatus(ts, bs, b) == updateBuildStatusOf(bs, b, TasksOfBuild(ts, b.Id))

RECURSIVE scanBuildsCreated(_, _)
scanBuildsCreated(bl, i) ==
    IF i > Len(bl) THEN TRUE
    ELSE IF bl[i].Status # BuildCreated THEN FALSE
    ELSE scanBuildsCreated(bl, i + 1)

RECURSIVE scanBuildsRunning(_, _)
scanBuildsRunning(bl, i) ==
    IF i > Len(bl) THEN FALSE
    ELSE IF bl[i].Activated /\ ~IsFinishedBuildStatus(bl[i].Status) /\ ~bl[i].AllTasksBlocked
    THEN TRUE
    ELSE scanBuildsRunning(bl, i + 1)

RECURSIVE scanBuildsFailed(_, _)
scanBuildsFailed(bl, i) ==
    IF i > Len(bl) THEN FALSE
    ELSE IF bl[i].Status = BuildFailed \/ bl[i].Aborted THEN TRUE
    ELSE scanBuildsFailed(bl, i + 1)

getVersionStatus(bl) ==
    IF scanBuildsCreated(bl, 1) THEN VersionCreated
    ELSE IF scanBuildsRunning(bl, 1) THEN VersionStarted
    ELSE IF scanBuildsFailed(bl, 1) THEN VersionFailed
    ELSE VersionSucceeded

\* build.Find(build.ByVersion(id).WithFields(Activated, Status, IsGithubCheck,
\* GithubCheckStatus, Aborted)): fields outside the projection are zero
BuildsOfVersion(bs, versionId) ==
    LET ids == SelectSeq(BuildOrder, LAMBDA id : id \in DOMAIN bs /\ bs[id].Version = versionId)
    IN  [i \in 1..Len(ids) |-> [bs[ids[i]] EXCEPT !.AllTasksBlocked = FALSE]]

\* updateVersionStatus for the version document v the caller fetched
\* the writes of updateVersionStatus, given the computed status and flag
setVersionStatus(vs, v, versionStatus, isAborted) ==
    IF versionStatus = v.Status
    THEN [versions |-> vs, status |-> versionStatus]
    ELSE [versions |-> [vs EXCEPT ![v.Id].Aborted = IF isAborted # v.Aborted
                                                   THEN isAborted ELSE @,
                                  ![v.Id].Status = versionStatus],
          status |-> versionStatus]

\* updateVersionStatus once the builds bl of the version have been read
updateVersionStatusOf(vs, v, bl) ==
    setVersionStatus(vs, v, getVersionStatus(bl), \E i \in 1..Len(bl) : bl[i].Aborted)

updateVersionStatus(bs, vs, v) == updateVersionStatusOf(vs, v, BuildsOfVersion(bs, v.Id))

\* UpdatePatchStatus for the patch status p the caller fetched
UpdatePatchStatus(ps, versionId, p, versionStatus) ==
    LET patchStatus == VersionStatusToPatchStatus(versionStatus)
    IN  IF patchStatus = p THEN ps ELSE [ps EXCEPT ![versionId] = patchStatus]

APIServerTaskActivator == "apiserver"

\* a database: the collections, the error of the call that produced it, the
\* tasks whose archiving the store refuses during the call, the stored commit
\* queue, the reactions of the call so far, in order, the caller of MarkEnd
\* and the versions for which the call has run updateVersionStatus
DB(ts, bs, vs, ps, ev, err) ==
    [tasks |-> ts, builds |-> bs, versions |-> vs, patches |-> ps, events |-> ev,
     err |-> err, failing |-> {}, dbq |-> <<>>, log |-> <<>>,
     caller |-> APIServerTaskActivator, recomputed |-> {}]

\* UpdateBuildAndVersionStatusForTask after updateVersionStatus has returned
\* uv: the patch of a patch version
updatePatchOfVersion(d, taskVersion, uv) ==
    IF ~IsPatchRequester(taskVersion.Requester)
    THEN [d EXCEPT !.versions = uv.versions]
    ELSE IF d.patches[taskVersion.Id] = ""
    THEN [d EXCEPT !.versions = uv.versions, !.err = "no patch found for version"]
    ELSE [d EXCEPT !.versions = uv.versions,
                   !.patches = UpdatePatchStatus(@, taskVersion.Id,
                                                 d.patches[taskVersion.Id], uv.status)]

\* UpdateBuildAndVersionStatusForTask after updateBuildStatus has reported a
\* change: the version taskVersion and its patch
updateVersionOfTask(d, taskVersion) ==
    updatePatchOfVersion([d EXCEPT !.recomputed = @ \cup {taskVersion.Id}], taskVersion,
                         updateVersionStatus(d.builds, d.versions, taskVersion))

\* an update that goes on to the version whatever updateBuildStatus reports
updateAfterBuildAlways(d, t, ub) ==
    updateVersionOfTask([d EXCEPT !.builds = ub.builds], d.versions[t.Version])

\* UpdateBuildAndVersionStatusForTask after updateBuildStatus has returned ub
updateAfterBuild(d, t, ub) ==
    IF ~ub.changed THEN [d EXCEPT !.builds = ub.builds]
    ELSE updateVersionOfTask([d EXCEPT !.builds = ub.builds], d.versions[t.Version])

UpdateBuildAndVersionStatusForTask(d, t) ==
    updateAfterBuild(d, t, updateBuildStatus(d.tasks, d.builds, d.builds[t.BuildId]))

\* the same for the stored document of the task taskId
updateStatusForTaskId(d, taskId) == UpdateBuildAndVersionStatusForTask(d, d.tasks[taskId])

\* UpdateVersionAndPatchStatusForBuilds: the second loop, over the versions
\* with a build that changed; the versions are independent of each other
RECURSIVE updateVersionsOf(_, _)
updateVersionsOf(d, versionsToUpdate) ==
    IF versionsToUpdate = {} \/ d.err # "" THEN d
    ELSE updateVersionsOf(
             updateVersionOfTask(d, d.versions[CHOOSE v \in versionsToUpdate : TRUE]),
             versionsToUpdate \ {CHOOSE v \in versionsToUpdate : TRUE})

\* UpdateVersionAndPatchStatusForBuilds: the first loop, over the builds
RECURSIVE updateBuildsOf(_, _, _, _)
updateBuildsOf(d, buildIds, i, versionsToUpdate) ==
    IF i > Len(buildIds) THEN updateVersionsOf(d, versionsToUpdate)
    ELSE updateBuildsOf(
             [d EXCEPT !.builds = updateBuildStatus(d.tasks, d.builds, d.builds[buildIds[i]]).builds],
             buildIds, i + 1,
             IF updateBuildStatus(d.tasks, d.builds, d.builds[buildIds[i]]).changed
             THEN versionsToUpdate \cup {d.builds[buildIds[i]].Version}
             ELSE versionsToUpdate)

UpdateVersionAndPatchStatusForBuilds(d, buildIds) ==
    updateBuildsOf(d, SelectSeq(buildIds, LAMBDA b : b \in DOMAIN d.builds), 1, {})

-----------------------------------------------------------------------------
(* Task lifecycle handlers *)

UIPackage == "EVERGREEN_UI"
RESTV2Package == "EVERGREEN_REST_V2"
MonitorPackage == "EVERGREEN_MONITOR"

\* evergreen.MaxTaskExecution
MaxTaskExecution == 9

\* a nil *apimodels.TaskEndDetail
NilDetail == [Status |-> "nil", Description |-> ""]

\* the status MarkEnd compares with the task's: the reported status, turned into
\* failed when the task has failed tests
guardedStatus(t, detail) ==
    IF HasFailedTests(t) /\ detail.Status # TaskFailed THEN TaskFailed ELSE detail.Status

\* the double-finish guard of MarkEnd
IsDoubleFinish(t, detail) == t.Status = guardedStatus(t, detail)

\* the details MarkEnd records: a task that must have results and has none is failed
recordedDetail(t, detail) ==
    LET detailsCopy == [detail EXCEPT !.Status = guardedStatus(t, detail)]
    IN  IF /\ ~t.HasCedarResults
           /\ detailsCopy.Status = TaskSucceeded
           /\ t.ResultCount = 0
           /\ t.MustHaveResults
        THEN [Status |-> TaskFailed, Description |-> TaskDescriptionNoResults]
        ELSE detailsCopy

\* MarkOneTaskReset of a task that is not a display task
MarkOneTaskReset(ts, id) ==
    LET ts1 == TaskReset(ts, id)
        ts2 == UpdateUnblockedDependencies(ts1, id)
    IN  MarkDependenciesFinished(ts2, id, FALSE)

\* resetTask: archive, reset, reactivate, recompute the task's build and version
\* Task.Archive of a display task: its execution tasks are archived with it
RECURSIVE archiveEach(_, _, _)
archiveEach(ts, ids, i) ==
    IF i > Len(ids) THEN ts
    ELSE archiveEach(IF ids[i] \in DOMAIN ts THEN Archive(ts, ids[i]) ELSE ts, ids, i + 1)

ArchiveWithExecutionTasks(ts, id) ==
    Archive(IF ts[id].DisplayOnly THEN archiveEach(ts, ts[id].ExecutionTasks, 1) ELSE ts, id)

\* MarkOneTaskReset of a display task: the loop over its execution tasks
RECURSIVE resetExecutionTasks(_, _, _)
resetExecutionTasks(ts, ids, i) ==
    IF i > Len(ids) THEN ts
    ELSE resetExecutionTasks(IF ids[i] \in DOMAIN ts THEN MarkOneTaskReset(ts, ids[i]) ELSE ts,
                             ids, i + 1)

\* MarkOneTaskReset of any task
MarkOneTaskResetWithExecutionTasks(ts, id) ==
    MarkOneTaskReset(IF ts[id].DisplayOnly
                     THEN resetExecutionTasks(ts, ts[id].ExecutionTasks, 1) ELSE ts,
                     id)

resetTask(d, taskId) ==
    IF IsPartOfDisplay(d.tasks[taskId])
    THEN [d EXCEPT !.err = "cannot restart execution task because it is part of a display task"]
    ELSE
    updateStatusForTaskId(
        [d EXCEPT !.tasks = ActivateTask(
                                MarkOneTaskResetWithExecutionTasks(
                                    ArchiveWithExecutionTasks(@, taskId), taskId),
                                taskId),
                  !.events = [@ EXCEPT ![taskId] = 0]],
        taskId)

\* resetManyTasks: every task is reset in turn and the errors are collected
RECURSIVE resetManyTasks(_, _, _)
resetManyTasks(d, ids, i) ==
    IF i > Len(ids) THEN d
    ELSE IF ids[i] \in d.failing
    THEN resetManyTasks([d EXCEPT !.err = "can't restart task because it can't be archived"],
                        ids, i + 1)
    ELSE resetManyTasks(resetTask(d, ids[i]), ids, i + 1)

\* a member of the group that still needs to run
StillToRun(t) == ~IsFinished(t) /\ ~Blocked(t) /\ t.Activated

\* a group check that does not wait for the members that still need to run
checkGroupWithoutWaiting(d, ids) ==
    IF Len(ids) = 0 THEN [d EXCEPT !.err = "no tasks in task group"]
    ELSE IF ~\E i \in 1..Len(ids) : d.tasks[ids[i]].ResetWhenFinished THEN d
    ELSE resetManyTasks(d, ids, 1)

\* checkResetSingleHostTaskGroup once the members of the group have been read
checkGroup(d, ids) ==
    IF Len(ids) = 0 THEN [d EXCEPT !.err = "no tasks in task group"]
    ELSE IF \E i \in 1..Len(ids) : StillToRun(d.tasks[ids[i]]) THEN d
    ELSE IF ~\E i \in 1..Len(ids) : d.tasks[ids[i]].ResetWhenFinished THEN d
    ELSE resetManyTasks(d, ids, 1)

checkResetSingleHostTaskGroup(d, t) ==
    IF ~IsPartOfSingleHostTaskGroup(t) THEN d
    ELSE checkGroup(d, FindTaskGroupFromBuild(d.tasks, t.BuildId, t.TaskGroup))

RECURSIVE MarkEnd(_, _, _, _)
RECURSIVE TryResetTask(_, _, _, _, _)

\* the end of MarkEnd: a task that was to be reset once finished is reset
resetWhenFinished(d, t, detail) ==
    IF d.err # "" THEN d
    ELSE IF t.ResetWhenFinished /\ ~IsPartOfDisplay(t) /\ ~IsPartOfSingleHostTaskGroup(t)
    THEN TryResetTask(d, t.Id, APIServerTaskActivator, "", detail)
    ELSE d

RECURSIVE SetActiveState(_, _, _, _)
RECURSIVE UpdateDisplayTaskForTask(_, _)

\* evergreen.User
User == "mci"

\* a check that does not wait for the execution tasks that still need to run
checkResetDisplayTaskWithoutWaiting(d, dt) ==
    IF ~dt.ResetWhenFinished THEN d
    ELSE TryResetTask(d, dt.Id, User, User, dt.Details)

\* checkResetDisplayTask for the document dt of the display task
checkResetDisplayTask(d, dt) ==
    IF ~dt.ResetWhenFinished THEN d
    ELSE IF \E i \in 1..Len(dt.ExecutionTasks) :
               /\ dt.ExecutionTasks[i] \in DOMAIN d.tasks
               /\ StillToRun(d.tasks[dt.ExecutionTasks[i]])
    THEN d
    ELSE TryResetTask(d, dt.Id, User, User, dt.Details)

\* MarkEnd of an execution task: its display task is refreshed, read again
\* and checked for a reset
checkDisplayOf(u, t) ==
    IF u.err # "" THEN u ELSE checkResetDisplayTask(u, u.tasks[t.DisplayTaskId])

\* MarkEnd once the finish is stored and propagated: the display task of an
\* execution task, or the task group of any other task
checkReset(d, t) ==
    IF IsPartOfDisplay(t)
    THEN checkDisplayOf(UpdateDisplayTaskForTask(d, t), t)
    ELSE checkResetSingleHostTaskGroup(d, t)

\* ResetTaskOrDisplayTask for the document t the caller holds
ResetTaskOrDisplayTask(d, t, user, origin, detail) ==
    LET taskToReset == IF IsPartOfDisplay(t) /\ t.DisplayTaskId \in DOMAIN d.tasks
                       THEN d.tasks[t.DisplayTaskId] ELSE t
    IN  IF taskToReset.DisplayOnly
        THEN checkResetDisplayTask(
                 [d EXCEPT !.tasks = SetResetWhenFinished(@, taskToReset.Id)],
                 [taskToReset EXCEPT !.ResetWhenFinished = TRUE])
        ELSE TryResetTask(d, t.Id, user, origin, detail)

StepbackTaskActivator == "stepback"

\* two runs of the same task in different versions
SameTask(a, b) ==
    /\ a.BuildVariant = b.BuildVariant
    /\ a.DisplayName = b.DisplayName

\* the run with the highest revision order among the runs of ids; "" if none
LatestRun(ts, ids) ==
    IF ids = {} THEN ""
    ELSE CHOOSE x \in ids :
             \A y \in ids : ts[y].RevisionOrderNumber <= ts[x].RevisionOrderNumber

\* task.FindOne(task.ByBeforeRevision(...)) sorted by falling revision order
ByBeforeRevision(ts, revisionOrder, buildVariant, displayName, requester) ==
    LatestRun(ts, {x \in DOMAIN ts : /\ ts[x].BuildVariant = buildVariant
                                     /\ ts[x].DisplayName = displayName
                                     /\ ts[x].Requester = requester
                                     /\ ts[x].RevisionOrderNumber < revisionOrder})

\* a search for the previous run that passes over the finished runs
previousUnfinishedTask(ts, t) ==
    LatestRun(ts, {x \in DOMAIN ts : /\ SameTask(ts[x], t)
                                     /\ ts[x].Requester = t.Requester
                                     /\ ts[x].RevisionOrderNumber < t.RevisionOrderNumber
                                     /\ ~IsFinished(ts[x])})

\* activatePreviousTask: the previous run of t
previousTask(ts, t) ==
    ByBeforeRevision(ts, t.RevisionOrderNumber, t.BuildVariant, t.DisplayName, t.Requester)

\* Task.PreviousCompletedTask with the status succeeded: the latest earlier
\* run of the task that succeeded
PreviousCompletedTask(ts, t) ==
    LatestRun(ts, {x \in DOMAIN ts : /\ SameTask(ts[x], t)
                                     /\ ts[x].RevisionOrderNumber < t.RevisionOrderNumber
                                     /\ ts[x].Status = TaskSucceeded})

\* task.FindAll(task.ByActivatedBeforeRevisionWithStatuses(...)) with the
\* status undispatched: the earlier runs that are activated and undispatched
ByActivatedBeforeRevision(ts, t) ==
    idsWhere(ts, LAMBDA x : /\ SameTask(x, t)
                            /\ x.RevisionOrderNumber < t.RevisionOrderNumber
                            /\ x.Activated
                            /\ x.Status = TaskUndispatched)

\* activatePreviousTask once the previous run was looked up
activateUnlessSkipped(d, prevTask) ==
    IF prevTask = "" THEN d
    ELSE IF \/ IsFinished(d.tasks[prevTask])
            \/ d.tasks[prevTask].Priority < 0
            \/ d.tasks[prevTask].Activated
    THEN d
    ELSE SetActiveState(d, StepbackTaskActivator, TRUE, d.tasks[prevTask])

\* an activation of the previous run unless it is unfinished
activatePreviousTaskUnlessUnfinished(d, taskId) ==
    IF taskId \notin DOMAIN d.tasks THEN [d EXCEPT !.err = "task does not exist"]
    ELSE IF previousTask(d.tasks, d.tasks[taskId]) = "" THEN d
    ELSE IF \/ ~IsFinished(d.tasks[previousTask(d.tasks, d.tasks[taskId])])
            \/ d.tasks[previousTask(d.tasks, d.tasks[taskId])].Priority < 0
            \/ d.tasks[previousTask(d.tasks, d.tasks[taskId])].Activated
    THEN d
    ELSE SetActiveState(d, StepbackTaskActivator, TRUE,
                        d.tasks[previousTask(d.tasks, d.tasks[taskId])])

\* activatePreviousTask of a task that was not generated
activatePreviousTask(d, taskId) ==
    IF taskId \notin DOMAIN d.tasks THEN [d EXCEPT !.err = "task does not exist"]
    ELSE activateUnlessSkipped(d, previousTask(d.tasks, d.tasks[taskId]))

RECURSIVE doStepback(_, _)
RECURSIVE stepbackExecutionTasks(_, _, _)

\* the loop of doStepback over the execution tasks of a display task
stepbackExecutionTasks(d, ets, i) ==
    IF i > Len(ets) THEN d
    ELSE stepbackExecutionTasks(doStepback(d, d.tasks[ets[i]]), ets, i + 1)

\* doStepback of t once its execution tasks have been stepped back
stepbackOne(d, t) ==
    IF d.err # "" THEN d
    ELSE IF PreviousCompletedTask(d.tasks, t) = ""
    THEN [d EXCEPT !.log = Append(@, <<"stepback", t.Id>>)]
    ELSE activatePreviousTask([d EXCEPT !.log = Append(@, <<"stepback", t.Id>>)], t.Id)

doStepback(d, t) ==
    stepbackOne(IF t.DisplayOnly
                THEN stepbackExecutionTasks(d, originalExecutionTasks(d.tasks, t), 1)
                ELSE d,
                t)

\* a stepback of a group that goes on after the failing task
RECURSIVE stepbackWholeGroup(_, _, _, _)
stepbackWholeGroup(d, t, ids, i) ==
    IF i > Len(ids) THEN d
    ELSE stepbackWholeGroup(doStepback(d, d.tasks[ids[i]]), t, ids, i + 1)

\* the loop of evalStepback over the members of a single-host task group: it
\* stops after the task itself and collects the errors
RECURSIVE stepbackGroup(_, _, _, _)
stepbackGroup(d, t, ids, i) ==
    IF i > Len(ids) THEN d
    ELSE IF ids[i] = t.Id THEN doStepback(d, d.tasks[ids[i]])
    ELSE stepbackGroup(doStepback(d, d.tasks[ids[i]]), t, ids, i + 1)

\* the loop of DeactivatePreviousTasks, which returns at the first error
RECURSIVE deactivateEach(_, _, _)
deactivateEach(d, ids, i) ==
    IF i > Len(ids) \/ d.err # "" THEN d
    ELSE IF IsPatchRequester(d.tasks[ids[i]].Requester) THEN deactivateEach(d, ids, i + 1)
    ELSE deactivateEach(SetActiveState(d, d.caller, FALSE, d.tasks[ids[i]]), ids, i + 1)

\* DeactivatePreviousTasks: with a display task, the execution tasks of the
\* previous display tasks that have neither finished nor started
extraTasks(ts, t, allTasks) ==
    IF ~t.DisplayOnly THEN <<>>
    ELSE idsWhere(ts, LAMBDA x :
             \E i \in 1..Len(allTasks) :
                /\ HasExecutionTask(ts[allTasks[i]], x.Id)
                /\ \A e \in DOMAIN ts :
                      HasExecutionTask(ts[allTasks[i]], e)
                      => ~IsFinished(ts[e]) /\ ~IsAbortable(ts[e]))

DeactivatePreviousTasks(d, t) ==
    deactivateEach(d, ByActivatedBeforeRevision(d.tasks, t)
                      \o extraTasks(d.tasks, t, ByActivatedBeforeRevision(d.tasks, t)), 1)

\* evalStepback(t, caller, status, deactivatePrevious)
evalStepback(d, t, status) ==
    IF status = TaskFailed /\ ~t.Aborted
    THEN IF ~t.Stepback THEN d
         ELSE IF IsPartOfSingleHostTaskGroup(t)
         THEN IF Len(FindTaskGroupFromBuild(d.tasks, t.BuildId, t.TaskGroup)) = 0
              THEN [d EXCEPT !.err = "no tasks in task group"]
              ELSE stepbackGroup(d, t, FindTaskGroupFromBuild(d.tasks, t.BuildId, t.TaskGroup), 1)
         ELSE doStepback(d, t)
    ELSE IF /\ status = TaskSucceeded
            /\ t.DeactivatePrevious
            /\ t.Requester = RepotrackerVersionRequester
    THEN DeactivatePreviousTasks(d, t)
    ELSE d

\* a MarkEnd that reacts to the end of a task whatever its requester
stepbackForEveryRequester(d, t, status) ==
    IF IsPartOfDisplay(t)
    THEN evalStepback(d, d.tasks[t.DisplayTaskId], d.tasks[t.DisplayTaskId].Status)
    ELSE evalStepback(d, t, status)

\* MarkEnd: the stepback and the deactivation of previous runs, for a task
\* that is not of a patch.  status is the display status of the task that
\* MarkEnd holds in memory, taken before the check of the task group; it is
\* the status MarkEnd has stored
stepbackUnlessPatch(d, t, status) ==
    IF IsPatchRequester(t.Requester) THEN d
    ELSE IF IsPartOfDisplay(t)
    THEN evalStepback(d, d.tasks[t.DisplayTaskId], d.tasks[t.DisplayTaskId].Status)
    ELSE evalStepback(d, t, status)

\* MarkEnd after its reactions: the build and version of the task
afterStepback(d, t, detail) ==
    IF d.err # "" THEN d
    ELSE resetWhenFinished(updateStatusForTaskId(d, t.Id), t, detail)

\* MarkEnd once the finish is stored and propagated and the task group of the
\* task was checked: the stepback, then its build and version
afterFinish(d, t, detail) ==
    IF d.err # "" THEN d
    ELSE afterStepback(stepbackUnlessPatch(d, t, recordedDetail(t, detail).Status), t, detail)

\* a MarkEnd that does not propagate the finish to the dependents
MarkEndWithoutPropagation(d, t, finishTime, detail) ==
    IF IsDoubleFinish(t, detail) THEN d
    ELSE afterFinish(
             checkReset(
                 [d EXCEPT !.tasks = MarkDependenciesFinished(
                                         TaskMarkEnd(@, t.Id, finishTime,
                                                     recordedDetail(t, detail)),
                                         t.Id, TRUE),
                           !.events = [@ EXCEPT ![t.Id] = @ + 1]],
                 t),
             t, detail)

\* MarkEnd(t, caller, finishTime, detail, deactivatePrevious) for the task
\* document t the caller holds
MarkEnd(d, t, finishTime, detail) ==
    IF IsDoubleFinish(t, detail) THEN d
    ELSE afterFinish(
             checkReset(
                 [d EXCEPT !.tasks = MarkDependenciesFinished(
                                         UpdateBlockedDependencies(
                                             TaskMarkEnd(@, t.Id, finishTime,
                                                         recordedDetail(t, detail)),
                                             t.Id),
                                         t.Id, TRUE),
                           !.events = [@ EXCEPT ![t.Id] = @ + 1]],
                 t),
             t, detail)

\* the end of TryResetTask: a member of a single-host task group asks for the
\* reset of its group, any other task is reset
resetOrDefer(d, t) ==
    IF IsPartOfSingleHostTaskGroup(t)
    THEN checkResetSingleHostTaskGroup(
             [d EXCEPT !.tasks = SetResetWhenFinished(@, t.Id)], t)
    ELSE resetTask(d, t.Id)

TryResetTask(d, taskId, user, origin, detail) ==
    IF taskId \notin DOMAIN d.tasks
    THEN [d EXCEPT !.err = "cannot restart task because it could not be found"]
    ELSE IF IsPartOfDisplay(d.tasks[taskId])
    THEN [d EXCEPT !.err = "cannot restart execution task because it is part of a display task"]
    ELSE
    LET t == d.tasks[taskId]
        fromUI == origin = UIPackage \/ origin = RESTV2Package
        capped == t.Execution >= MaxTaskExecution /\ ~fromUI
    IN  IF capped /\ ~IsFinished(t) /\ detail # NilDetail
        THEN MarkEnd(d, t, t.FinishTime + 1, detail)
        ELSE IF capped /\ IsFinished(t) THEN d
        ELSE IF ~IsFinished(t) /\ fromUI
        THEN [d EXCEPT !.err = "cannot reset task in this status"]
        ELSE resetOrDefer(
                 [d EXCEPT !.tasks = IF detail # NilDetail
                                     THEN TaskMarkEnd(@, taskId, t.FinishTime + 1, detail)
                                     ELSE @],
                 t)

\* MarkStart: the task, and the build, version and patch if not yet started
MarkStart(d, t) ==
    LET b == d.builds[t.BuildId]
        v == d.versions[t.Version]
        p == d.patches[t.Version]
    IN  [d EXCEPT !.tasks = TaskMarkStart(@, t.Id),
                  !.builds = IF b.Status = BuildCreated
                             THEN [@ EXCEPT ![t.BuildId].Status = BuildStarted] ELSE @,
                  !.versions = IF v.Status = VersionCreated
                               THEN [@ EXCEPT ![t.Version].Status = VersionStarted] ELSE @,
                  !.patches = IF IsPatchRequester(t.Requester) /\ p = PatchCreated
                              THEN [@ EXCEPT ![t.Version] = PatchStarted] ELSE @]

\* MarkHostTaskDispatched
MarkHostTaskDispatched(d, t) == [d EXCEPT !.tasks = MarkAsHostDispatched(@, t.Id)]

-----------------------------------------------------------------------------
(* The task-graph specification *)

Dep(id, status) ==
    [TaskId |-> id, Status |-> status, Unattainable |-> FALSE, Finished |-> FALSE]

NewTask(id, buildId, requester, dependsOn, mustHaveResults) ==
    [Id |-> id, Status |-> TaskUndispatched, Activated |-> TRUE, Aborted |-> FALSE,
     DependsOn |-> dependsOn, BuildId |-> buildId, Version |-> VersionId,
     Requester |-> requester, Execution |-> 0, FinishTime |-> 0, Details |-> NoDetails,
     MustHaveResults |-> mustHaveResults, ResetWhenFinished |-> FALSE,
     HasCedarResults |-> FALSE, ResultCount |-> 0, FailedTests |-> FALSE,
     OverrideDependencies |-> FALSE, ActivatedBy |-> "", Priority |-> 0,
     DisplayOnly |-> FALSE, ExecutionTasks |-> <<>>, DisplayTaskId |-> "",
     TaskGroup |-> "", TaskGroupMaxHosts |-> 0, TaskGroupOrder |-> 0,
     BuildVariant |-> buildId, DisplayName |-> id, RevisionOrderNumber |-> 1,
     Stepback |-> FALSE, DeactivatePrevious |-> FALSE]

NewBuild(id) ==
    [Id |-> id, Status |-> BuildCreated, AllTasksBlocked |-> FALSE, Aborted |-> FALSE,
     Activated |-> TRUE, Version |-> VersionId]

\* the versions the model is started in: chains A <- B <- C, and a task B with
\* the two dependencies A and A2 on which C depends
Chain(requester, bBuild, cBuild, cRequires, mustHaveResults) ==
    [t \in {"A", "B", "C"} |->
        CASE t = "A" -> NewTask("A", "b1", requester, <<>>, mustHaveResults)
          [] t = "B" -> NewTask("B", bBuild, requester, <<Dep("A", TaskSucceeded)>>, FALSE)
          [] t = "C" -> NewTask("C", cBuild, requester, <<Dep("B", cRequires)>>, FALSE)]

Diamond(requester) ==
    [t \in {"A", "A2", "B", "C"} |->
        CASE t = "A" -> NewTask("A", "b1", requester, <<>>, FALSE)
          [] t = "A2" -> NewTask("A2", "b1", requester, <<>>, FALSE)
          [] t = "B" ->
               NewTask("B", "b1", requester,
                       <<Dep("A", TaskSucceeded), Dep("A2", TaskSucceeded)>>, FALSE)
          [] t = "C" -> NewTask("C", "b2", requester, <<Dep("B", TaskSucceeded)>>, FALSE)]

InitialTasks ==
    { Chain(PatchVersionRequester, "b1", "b1", TaskSucceeded, TRUE),
      Chain(RepotrackerVersionRequester, "b2", "b2", AllStatuses, FALSE),
      Diamond(PatchVersionRequester) }

NoAgent == [reported |-> "", n |-> 0]

BlockedTasks(ts) == {id \in DOMAIN ts : Blocked(ts[id])}

\* the record of a step: the call, its error, and the tasks blocked before it
Op(op, task, arg, err) ==
    [op |-> op, task |-> task, arg |-> arg, err |-> err, blocked |-> BlockedTasks(tasks)]

CurrentDB == [DB(tasks, builds, versions, patches, events, "") EXCEPT !.dbq = dbQueue]

Store(d) ==
    /\ tasks' = d.tasks
    /\ builds' = d.builds
    /\ versions' = d.versions
    /\ patches' = d.patches
    /\ events' = d.events

\* the database after a handler has returned, and the record of the call
StoreOp(d, op, task, arg) ==
    /\ Store(d)
    /\ lastOp' = Op(op, task, arg, d.err)

GraphInit ==
    /\ tasks \in InitialTasks
    /\ builds = [b \in {tasks[t].BuildId : t \in DOMAIN tasks} |-> NewBuild(b)]
    /\ versions = [v \in {VersionId} |->
                     [Id |-> v, Status |-> VersionCreated, Aborted |-> FALSE,
                      Requester |-> tasks["A"].Requester]]
    /\ patches = [v \in {VersionId} |->
                    IF IsPatchRequester(tasks["A"].Requester) THEN PatchCreated ELSE ""]
    /\ events = [t \in DOMAIN tasks |-> 0]
    /\ agent = [t \in DOMAIN tasks |-> NoAgent]
    /\ lastOp = [op |-> "Init", task |-> "", arg |-> "", err |-> "", blocked |-> {}]

\* the parts of the state a specification does not use
GraphIdle ==
    /\ tasks = <<>>
    /\ builds = <<>>
    /\ versions = <<>>
    /\ patches = <<>>
    /\ events = <<>>
    /\ agent = <<>>
    /\ lastOp = [op |-> "Init", task |-> "", arg |-> "", err |-> "", blocked |-> {}]

QueueIdle ==
    /\ queue = <<>>
    /\ dbQueue = <<>>
    /\ cqRet = [op |-> "", issue |-> "", position |-> 0, err |-> ""]

AggIdle ==
    /\ buildTasks = <<>>
    /\ aggResult = [done |-> FALSE, status |-> "", allTasksBlocked |-> FALSE]

ConcIdle ==
    /\ pc = <<>>
    /\ local = <<>>

Init == GraphInit /\ QueueIdle /\ AggIdle /\ ConcIdle

\* the dispatcher hands out a task that is undispatched, activated, unblocked
\* and whose dependencies have finished with the status they require
DependencyMet(ts, e) ==
    /\ IsFinished(ts[e.TaskId])
    /\ e.Status = AllStatuses \/ e.Status = ts[e.TaskId].Status

Dispatchable(ts, id) ==
    /\ ts[id].Status = TaskUndispatched
    /\ ts[id].Activated
    /\ ~Blocked(ts[id])
    /\ \A i \in 1..Len(ts[id].DependsOn) : DependencyMet(ts, ts[id].DependsOn[i])

\* the test results a worker attaches while it runs a task:
\* <<legacy result count, some test failed>>
ResultChoices(t) ==
    IF t.MustHaveResults THEN {<<0, FALSE>>, <<1, FALSE>>, <<1, TRUE>>} ELSE {<<0, FALSE>>}

RECURSIVE executionsFrom(_, _)
executionsFrom(ts, i) ==
    IF i > Len(TaskOrder) THEN 0
    ELSE (IF TaskOrder[i] \in DOMAIN ts THEN ts[TaskOrder[i]].Execution ELSE 0)
         + executionsFrom(ts, i + 1)

TotalExecutions(ts) == executionsFrom(ts, 1)

Dispatch(id) ==
    /\ Dispatchable(tasks, id)
    /\ Store(MarkHostTaskDispatched(CurrentDB, tasks[id]))
    /\ lastOp' = Op("MarkHostTaskDispatched", id, "", "")
    /\ UNCHANGED <<agent, cqVars, aggVars, concVars>>

Start(id) ==
    /\ tasks[id].Status = TaskDispatched
    /\ \E r \in ResultChoices(tasks[id]) :
          LET d == MarkStart(CurrentDB, tasks[id])
          IN  Store([d EXCEPT !.tasks[id].ResultCount = r[1],
                              !.tasks[id].FailedTests = r[2]])
    /\ lastOp' = Op("MarkStart", id, "", "")
    /\ UNCHANGED <<agent, cqVars, aggVars, concVars>>

\* a worker reports the end of the task it runs, and may repeat its report
End(id, status) ==
    /\ \/ tasks[id].Status \in {TaskDispatched, TaskStarted} /\ agent[id].n = 0
       \/ /\ agent[id].n \in 1..(MaxReports - 1)
          /\ agent[id].reported = status
    /\ StoreOp(MarkEnd(CurrentDB, tasks[id], agent[id].n + 1,
                       [Status |-> status, Description |-> ""]),
               "MarkEnd", id, status)
    /\ agent' = [agent EXCEPT ![id] = [reported |-> status, n |-> @.n + 1]]
    /\ UNCHANGED <<cqVars, aggVars, concVars>>

\* a user restarts a task from the UI; the monitor restarts a stranded task
ResetRequests(t) ==
    {<<UIPackage, NilDetail>>} \cup
    (IF t.Status \in {TaskDispatched, TaskStarted}
     THEN {<<MonitorPackage, [Status |-> TaskFailed, Description |-> "stranded"]>>}
     ELSE {})

Reset(id) ==
    /\ TotalExecutions(tasks) < MaxResets
    /\ \E r \in ResetRequests(tasks[id]) :
          StoreOp(TryResetTask(CurrentDB, id, "user", r[1], r[2]), "TryResetTask", id, r[1])
    /\ agent' = IF tasks'[id].Execution # tasks[id].Execution
                THEN [agent EXCEPT ![id] = NoAgent] ELSE agent
    /\ UNCHANGED <<cqVars, aggVars, concVars>>

Next ==
    \/ \E id \in DOMAIN tasks : Dispatch(id)
    \/ \E id \in DOMAIN tasks : Start(id)
    \/ \E id \in DOMAIN tasks, status \in {TaskSucceeded, TaskFailed} : End(id, status)
    \/ \E id \in DOMAIN tasks : Reset(id)

Spec == Init /\ [][Next]_vars

-----------------------------------------------------------------------------
(* Properties of the task-graph specification *)

\* the step is a MarkEnd of task id
EndStep(id) == agent'[id].n = agent[id].n + 1

\* the step is a TryResetTask that reset task id
ResetStep(id) == tasks'[id].Execution = tasks[id].Execution + 1

EdgesOf(ts, id) == {ts[id].DependsOn[i] : i \in 1..Len(ts[id].DependsOn)}

\* the dependency of d onto x that x's current status does not satisfy
Unsatisfied(ts, d, x) ==
    \E e \in EdgesOf(ts, d) : e.TaskId = x /\ e.Status \notin {AllStatuses, ts[x].Status}

Marked(ts, d, x) == \E e \in EdgesOf(ts, d) : e.TaskId = x /\ e.Unattainable

DependsOnTask(ts, d, x) == \E e \in EdgesOf(ts, d) : e.TaskId = x

\* the pairs <<d, x>> of tasks with R(d, x)
EdgeSet(ts, R(_, _)) == {p \in (DOMAIN ts) \X (DOMAIN ts) : R(p[1], p[2])}

\* the tasks reachable from the set S along the edges <<d, x>> of E
RECURSIVE Closure(_, _)
Closure(S, E) ==
    LET N == S \cup {p[1] : p \in {q \in E : q[2] \in S}}
    IN  IF N = S THEN S ELSE Closure(N, E)

\* the tasks that depend on id directly or through other tasks
Descendants(ts, id) ==
    Closure({id}, EdgeSet(ts, LAMBDA d, x : DependsOnTask(ts, d, x))) \ {id}

\* C1: once MarkEnd(t, s) has completed, a second MarkEnd of the same task with
\* the same reported status changes neither the task (status, details, finish
\* time), nor a dependency edge, nor the build, version or patch status, and
\* logs no second TASK_FINISHED event
DoubleFinishIdempotent ==
    [][\A id \in DOMAIN tasks :
          (EndStep(id) /\ agent[id].n >= 1 /\ agent'[id].reported = agent[id].reported)
          => /\ tasks' = tasks
             /\ builds' = builds
             /\ versions' = versions
             /\ patches' = patches
             /\ events' = events]_vars

\* C2 as stated: when MarkEnd finishes T0 with a status that does not satisfy
\* the requirement of a dependent T1, T1 and every task depending on T1 through
\* a chain of any length is blocked; and after a reset of T0 none of the tasks
\* whose only dependencies lead to T0 is blocked
BlockingTransitivityAsStated ==
    [][\A id \in DOMAIN tasks :
          /\ (EndStep(id) /\ ~IsFinished(tasks[id]) /\ IsFinished(tasks'[id]))
             => \A t1 \in DOMAIN tasks :
                   Unsatisfied(tasks', t1, id)
                   => \A d \in {t1} \cup Descendants(tasks', t1) : Blocked(tasks'[d])
          /\ (ResetStep(id) /\ IsFinished(tasks[id]))
             => \A d \in Descendants(tasks, id) :
                   (\A e \in EdgesOf(tasks, d) : e.TaskId \in {id} \cup Descendants(tasks, id))
                   /\ (\A x \in Descendants(tasks, id) : Len(tasks[x].DependsOn) = 1)
                   => ~Blocked(tasks'[d])]_vars

\* the tasks reached from id along edges that were not marked before the step
\* and whose requirement the status of their target does not satisfy
FreshChain(id) ==
    Closure({id}, EdgeSet(tasks, LAMBDA d, x :
                              Unsatisfied(tasks', d, x) /\ ~Marked(tasks, d, x))) \ {id}

\* the tasks reached from id along edges marked unattainable
MarkedChain(ts, id) == Closure({id}, EdgeSet(ts, LAMBDA d, x : Marked(ts, d, x))) \ {id}

\* C2, amended: when MarkEnd finishes T0, every task of a chain from T0 whose
\* edges were unmarked and require a status that the status of their target
\* does not satisfy (an unstarted or differently finished Ti, no AllStatuses
\* requirement) is blocked; after a reset of T0 every task that was blocked only
\* through marked edges leading to T0 is no longer blocked
BlockingTransitivity ==
    [][\A id \in DOMAIN tasks :
          /\ (EndStep(id) /\ ~IsFinished(tasks[id]) /\ IsFinished(tasks'[id]))
             => \A d \in FreshChain(id) : Blocked(tasks'[d])
          /\ ResetStep(id)
             => \A d \in MarkedChain(tasks, id) :
                   (\A e \in EdgesOf(tasks, d) :
                       e.Unattainable => e.TaskId \in {id} \cup MarkedChain(tasks, id))
                   => ~Blocked(tasks'[d])]_vars

\* C2 witness: A finished without satisfying B, B and C were blocked through
\* the chain, and the reset of A has unblocked both
BlockingTransitivityWitness ==
    /\ lastOp.op = "TryResetTask" /\ lastOp.task = "A" /\ lastOp.err = ""
    /\ tasks["A"].Execution = 1
    /\ {"B", "C"} \subseteq lastOp.blocked
    /\ Len(tasks["B"].DependsOn) = 1
    /\ ~Blocked(tasks["B"]) /\ ~Blocked(tasks["C"])

\* C3: after a reset of A, an edge D -> X that was unattainable stays
\* unattainable whenever X is still finished with a status the edge does not
\* accept, or X is itself still blocked
UnblockKeepsIndependentlyBlocked ==
    [][\A id \in DOMAIN tasks :
          ResetStep(id)
          => \A d \in DOMAIN tasks : \A x \in DOMAIN tasks \ {id} :
                (/\ Marked(tasks, d, x)
                 /\ \/ IsFinished(tasks'[x]) /\ Unsatisfied(tasks', d, x)
                    \/ Blocked(tasks'[x]))
                => Marked(tasks', d, x)]_vars

BlockedChanged(id) == (id \in lastOp.blocked) # Blocked(tasks[id])

StoredBuildIsCurrent(b) ==
    LET got == getBuildStatus(TasksOfBuild(tasks, b))
    IN  builds[b].Status = got.status /\ builds[b].AllTasksBlocked = got.allTasksBlocked

\* C6: after a MarkEnd or a reset, every build holding a task whose blocked
\* state the propagation changed stores the status and allTasksBlocked that
\* getBuildStatus gives for its current tasks
BuildRecomputedOnBlockedChange ==
    lastOp.op \in {"MarkEnd", "TryResetTask"}
    => \A id \in DOMAIN tasks :
          BlockedChanged(id) => StoredBuildIsCurrent(tasks[id].BuildId)

\* the tasks of t's build other than t that are not blocked
OtherUnblocked(ts, t) ==
    {o \in DOMAIN ts \ {t} : ts[o].BuildId = ts[t].BuildId /\ ~Blocked(ts[o])}

\* the step is a MarkEnd that finishes b as failed while t, undispatched,
\* depends on b succeeding
FailedDependencyStep(b, t) ==
    /\ EndStep(b) /\ ~IsFinished(tasks[b]) /\ tasks'[b].Status = TaskFailed
    /\ tasks[t].Status = TaskUndispatched
    /\ \E e \in EdgesOf(tasks, t) : e.TaskId = b /\ e.Status = TaskSucceeded

-----------------------------------------------------------------------------
(* getBuildStatus as a function of the task list *)

MaxBuildTasks == 3

\* a task document with the fields updateBuildStatus fetches
TaskDoc(status, activated, aborted, blocked) ==
    [Status |-> status, Activated |-> activated, Aborted |-> aborted,
     OverrideDependencies |-> FALSE,
     DependsOn |-> IF blocked
                   THEN <<[TaskId |-> "dep", Status |-> TaskSucceeded,
                           Unattainable |-> TRUE, Finished |-> TRUE]>>
                   ELSE <<>>]

TaskDocs ==
    {TaskDoc(st, TRUE, FALSE, bl) :
        st \in {TaskUndispatched, TaskStarted, TaskSucceeded, TaskFailed}, bl \in BOOLEAN}
    \cup {TaskDoc(TaskUndispatched, FALSE, FALSE, FALSE),
          TaskDoc(TaskInactive, FALSE, FALSE, FALSE),
          TaskDoc(TaskDispatched, TRUE, FALSE, FALSE),
          TaskDoc(TaskSystemFailed, TRUE, FALSE, FALSE),
          TaskDoc(TaskSucceeded, TRUE, TRUE, FALSE)}

TaskLists == UNION {[1..n -> TaskDocs] : n \in 0..MaxBuildTasks}

Permutation(n) == {p \in [1..n -> 1..n] : \A i, j \in 1..n : p[i] = p[j] => i = j}

InitBuildStatus ==
    /\ GraphIdle /\ QueueIdle /\ ConcIdle
    /\ buildTasks \in TaskLists
    /\ aggResult = [done |-> FALSE, status |-> "", allTasksBlocked |-> FALSE]

\* the aggregation reads the tasks of the build in some order
ComputeBuildStatus ==
    /\ ~aggResult.done
    /\ \E p \in Permutation(Len(buildTasks)) :
          LET bt == [i \in 1..Len(buildTasks) |-> buildTasks[p[i]]]
              got == getBuildStatus(bt)
          IN  /\ buildTasks' = bt
              /\ aggResult' = [done |-> TRUE, status |-> got.status,
                               allTasksBlocked |-> got.allTasksBlocked]
    /\ UNCHANGED <<graphVars, cqVars, concVars>>

NextBuildStatus == ComputeBuildStatus

SpecBuildStatus == InitBuildStatus /\ [][NextBuildStatus]_vars

DocsOf(bt) == {bt[i] : i \in 1..Len(bt)}

SomeRunning(bt) ==
    \E t \in DocsOf(bt) :
        t.Status = TaskStarted \/ (t.Activated /\ ~Blocked(t) /\ ~IsFinished(t))

SomeFailed(bt) == \E t \in DocsOf(bt) : IsFailedTaskStatus(t.Status) \/ t.Aborted

\* the order of the four outcomes below the first
LowerPriority(bt) ==
    IF SomeRunning(bt) THEN BuildStarted
    ELSE IF SomeFailed(bt) THEN BuildFailed
    ELSE BuildSucceeded

\* every order of the list gives the result that was computed
OrderIndependent ==
    \A p \in Permutation(Len(buildTasks)) :
        LET got == getBuildStatus([i \in 1..Len(buildTasks) |-> buildTasks[p[i]]])
        IN  got.status = aggResult.status /\ got.allTasksBlocked = aggResult.allTasksBlocked

-----------------------------------------------------------------------------
(* Handlers running concurrently: every database call is a step of its own *)

Procs == {"p1", "p2"}

MaxCalls == 1

NoLocal ==
    [task |-> "", calls |-> 0, b |-> NewBuild(""),
     got |-> [status |-> "", allTasksBlocked |-> FALSE],
     v |-> [Id |-> "", Status |-> "", Aborted |-> FALSE, Requester |-> ""],
     versionStatus |-> ""]

\* a started build of two tasks: A2 runs, A runs or has succeeded
InitConc ==
    /\ \E st \in {TaskStarted, TaskSucceeded} :
          tasks = [id \in {"A", "A2"} |->
                     [NewTask(id, "b1", PatchVersionRequester, <<>>, FALSE)
                         EXCEPT !.Status = IF id = "A" THEN st ELSE TaskStarted]]
    /\ builds = [b \in {"b1"} |-> [NewBuild(b) EXCEPT !.Status = BuildStarted]]
    /\ versions = [v \in {VersionId} |->
                     [Id |-> v, Status |-> VersionStarted, Aborted |-> FALSE,
                      Requester |-> PatchVersionRequester]]
    /\ patches = [v \in {VersionId} |-> PatchStarted]
    /\ events = [t \in {"A", "A2"} |-> 0]
    /\ agent = [t \in {"A", "A2"} |-> NoAgent]
    /\ lastOp = [op |-> "Init", task |-> "", arg |-> "", err |-> "", blocked |-> {}]
    /\ QueueIdle /\ AggIdle
    /\ pc = [p \in Procs |-> "idle"]
    /\ local = [p \in Procs |-> NoLocal]

ConcFrame == UNCHANGED <<agent, lastOp, cqVars, aggVars>>

\* MarkEnd up to its call of UpdateBuildAndVersionStatusForTask
CallMarkEnd(p, id, status) ==
    LET detail == [Status |-> status, Description |-> ""]
        t == tasks[id]
    IN  /\ pc[p] = "idle" /\ local[p].calls < MaxCalls
        /\ t.Status \in {TaskDispatched, TaskStarted}
        /\ ~IsDoubleFinish(t, detail)
        /\ tasks' = MarkDependenciesFinished(
                        UpdateBlockedDependencies(
                            TaskMarkEnd(tasks, id, t.FinishTime + 1, recordedDetail(t, detail)),
                            id),
                        id, TRUE)
        /\ events' = [events EXCEPT ![id] = @ + 1]
        /\ local' = [local EXCEPT ![p].task = id, ![p].calls = @ + 1]
        /\ pc' = [pc EXCEPT ![p] = "fetchBuild"]
        /\ UNCHANGED <<builds, versions, patches>> /\ ConcFrame

\* TryResetTask from the UI up to the call of UpdateBuildAndVersionStatusForTask
\* in resetTask
CallResetTask(p, id) ==
    /\ pc[p] = "idle" /\ local[p].calls < MaxCalls
    /\ IsFinished(tasks[id])
    /\ tasks' = ActivateTask(MarkOneTaskReset(Archive(tasks, id), id), id)
    /\ events' = [events EXCEPT ![id] = 0]
    /\ local' = [local EXCEPT ![p].task = id, ![p].calls = @ + 1]
    /\ pc' = [pc EXCEPT ![p] = "fetchBuild"]
    /\ UNCHANGED <<builds, versions, patches>> /\ ConcFrame

\* UpdateBuildAndVersionStatusForTask: build.FindOneId(t.BuildId)
FetchBuild(p) ==
    /\ pc[p] = "fetchBuild"
    /\ local' = [local EXCEPT ![p].b = builds[tasks[local[p].task].BuildId]]
    /\ pc' = [pc EXCEPT ![p] = "readTasks"]
    /\ UNCHANGED <<tasks, builds, versions, patches, events>> /\ ConcFrame

\* updateBuildStatus: task.FindWithFields and getBuildStatus
ReadTasks(p) ==
    /\ pc[p] = "readTasks"
    /\ local' = [local EXCEPT ![p].got = getBuildStatus(TasksOfBuild(tasks, local[p].b.Id))]
    /\ pc' = [pc EXCEPT ![p] = "setBlocked"]
    /\ UNCHANGED <<tasks, builds, versions, patches, events>> /\ ConcFrame

\* updateBuildStatus: SetAllTasksBlocked and the comparison with the fetched status
SetAllTasksBlocked(p) ==
    LET b == local[p].b
        got == local[p].got
    IN  /\ pc[p] = "setBlocked"
        /\ builds' = [builds EXCEPT ![b.Id].AllTasksBlocked = got.allTasksBlocked]
        /\ pc' = [pc EXCEPT ![p] =
                    IF got.status # b.Status THEN "writeBuild"
                    ELSE IF got.allTasksBlocked # b.AllTasksBlocked THEN "fetchVersion"
                    ELSE "idle"]
        /\ UNCHANGED <<tasks, versions, patches, events, local>> /\ ConcFrame

\* updateBuildStatus: SetAborted and MarkFinished or UpdateStatus
WriteBuild(p) ==
    LET b == local[p].b
        isAborted == buildIsAborted(TasksOfBuild(tasks, b.Id))
    IN  /\ pc[p] = "writeBuild"
        /\ builds' = [builds EXCEPT ![b.Id].Aborted = IF isAborted # b.Aborted
                                                     THEN isAborted ELSE @,
                                    ![b.Id].Status = local[p].got.status]
        /\ pc' = [pc EXCEPT ![p] = "fetchVersion"]
        /\ UNCHANGED <<tasks, versions, patches, events, local>> /\ ConcFrame

\* UpdateBuildAndVersionStatusForTask: VersionFindOneId(t.Version)
FetchVersion(p) ==
    /\ pc[p] = "fetchVersion"
    /\ local' = [local EXCEPT ![p].v = versions[tasks[local[p].task].Version]]
    /\ pc' = [pc EXCEPT ![p] = "readBuilds"]
    /\ UNCHANGED <<tasks, builds, versions, patches, events>> /\ ConcFrame

\* updateVersionStatus: build.Find and getVersionStatus
ReadBuilds(p) ==
    LET versionStatus == getVersionStatus(BuildsOfVersion(builds, local[p].v.Id))
    IN  /\ pc[p] = "readBuilds"
        /\ local' = [local EXCEPT ![p].versionStatus = versionStatus]
        /\ pc' = [pc EXCEPT ![p] =
                    IF versionStatus = local[p].v.Status THEN "patch" ELSE "writeVersion"]
        /\ UNCHANGED <<tasks, builds, versions, patches, events>> /\ ConcFrame

\* updateVersionStatus: SetAborted and MarkFinished or UpdateStatus
WriteVersion(p) ==
    LET v == local[p].v
        bl == BuildsOfVersion(builds, v.Id)
        isAborted == \E i \in 1..Len(bl) : bl[i].Aborted
    IN  /\ pc[p] = "writeVersion"
        /\ versions' = [versions EXCEPT ![v.Id].Aborted = IF isAborted # v.Aborted
                                                         THEN isAborted ELSE @,
                                        ![v.Id].Status = local[p].versionStatus]
        /\ pc' = [pc EXCEPT ![p] = "patch"]
        /\ UNCHANGED <<tasks, builds, patches, events, local>> /\ ConcFrame

\* UpdateBuildAndVersionStatusForTask: patch.FindOneId and UpdatePatchStatus
WritePatch(p) ==
    LET v == local[p].v
    IN  /\ pc[p] = "patch"
        /\ patches' = IF IsPatchRequester(v.Requester)
                      THEN UpdatePatchStatus(patches, v.Id, patches[v.Id],
                                             local[p].versionStatus)
                      ELSE patches
        /\ pc' = [pc EXCEPT ![p] = "idle"]
        /\ UNCHANGED <<tasks, builds, versions, events, local>> /\ ConcFrame

NextConc ==
    \E p \in Procs :
        \/ \E id \in DOMAIN tasks : \E status \in {TaskSucceeded, TaskFailed} :
              CallMarkEnd(p, id, status)
        \/ \E id \in DOMAIN tasks : CallResetTask(p, id)
        \/ FetchBuild(p)
        \/ ReadTasks(p)
        \/ SetAllTasksBlocked(p)
        \/ WriteBuild(p)
        \/ FetchVersion(p)
        \/ ReadBuilds(p)
        \/ WriteVersion(p)
        \/ WritePatch(p)

SpecConc == InitConc /\ [][NextConc]_vars

Quiescent == \A p \in Procs : pc[p] = "idle"

\* C5: once every recompute has finished, the stored status of the build is
\* getBuildStatus of its current tasks and the stored status of the version is
\* getVersionStatus of its current builds, whatever the interleaving was
AggregationConverges ==
    Quiescent
    => /\ \A b \in DOMAIN builds :
             builds[b].Status = getBuildStatus(TasksOfBuild(tasks, b)).status
       /\ \A v \in DOMAIN versions :
             versions[v].Status = getVersionStatus(BuildsOfVersion(builds, v))

-----------------------------------------------------------------------------
(* Commit queue: positions are counted from 0 as in the code *)

NewItem(issue, patchId) == [Issue |-> issue, PatchId |-> patchId, Version |-> ""]

InsertAt(q, pos, item) == SubSeq(q, 1, pos) \o <<item>> \o SubSeq(q, pos + 1, Len(q))

RemoveAt(q, pos) == SubSeq(q, 1, pos) \o SubSeq(q, pos + 2, Len(q))

\* the store: $push of the item
add(db, item) == Append(db, item)

\* the store: $push of the item with $position
addAtPosition(db, item, pos) == IF pos > Len(db) THEN Append(db, item) ELSE InsertAt(db, pos, item)

\* the store: $pull of the items with the issue
remove(db, issue) == SelectSeq(db, LAMBDA x : x.Issue # issue)

\* the store: set the version of the first item with the issue
addVersionID(db, item) ==
    LET hits == {i \in 1..Len(db) : db[i].Issue = item.Issue}
    IN  IF hits = {} THEN [db |-> db, err |-> "not found"]
        ELSE LET k == CHOOSE i \in hits : \A j \in hits : i <= j
             IN  [db |-> [db EXCEPT ![k].Version = item.Version], err |-> ""]

RECURSIVE findFrom(_, _, _)
findFrom(q, issue, i) ==
    IF i > Len(q) THEN -1
    ELSE IF q[i].Issue = issue \/ q[i].Version = issue \/ q[i].PatchId = issue THEN i - 1
    ELSE findFrom(q, issue, i + 1)

FindItem(q, issue) == findFrom(q, issue, 1)

\* the result of a queue method: the queue in memory, the store, the returned
\* position and error
CQResult(q, db, position, err) == [queue |-> q, db |-> db, position |-> position, err |-> err]

\* an Enqueue that returns the length after the append
EnqueueReturnsLength(q, db, item) ==
    LET position == FindItem(q, item.Issue)
    IN  IF position >= 0 THEN CQResult(q, db, position, "item already in queue")
        ELSE CQResult(Append(q, item), add(db, item), Len(q) + 1, "")

\* an Enqueue that does not look for the issue first
EnqueueUnchecked(q, db, item) ==
    CQResult(Append(q, item), add(db, item), Len(Append(q, item)) - 1, "")

Enqueue(q, db, item) ==
    LET position == FindItem(q, item.Issue)
    IN  IF position >= 0 THEN CQResult(q, db, position, "item already in queue")
        ELSE CQResult(Append(q, item), add(db, item), Len(Append(q, item)) - 1, "")

\* a loop that does not stop at the first unprocessed item
RECURSIVE newPosNoBreak(_, _, _)
newPosNoBreak(q, i, newPos) ==
    IF i > Len(q) THEN newPos
    ELSE newPosNoBreak(q, i + 1, IF q[i].Version # "" THEN i ELSE newPos)

\* the loop of EnqueueAtFront: the index after the leading items with a version
RECURSIVE newPosFrom(_, _, _)
newPosFrom(q, i, newPos) ==
    IF i > Len(q) THEN newPos
    ELSE IF q[i].Version # "" THEN newPosFrom(q, i + 1, i)
    ELSE newPos

\* an EnqueueAtFront that puts the item at the head of the queue
EnqueueAtHead(q, db, item) ==
    LET position == FindItem(q, item.Issue)
    IN  IF position >= 0 THEN CQResult(q, db, position, "item already in queue")
        ELSE CQResult(InsertAt(q, 0, item), addAtPosition(db, item, 0), 0, "")

EnqueueAtFront(q, db, item) ==
    LET position == FindItem(q, item.Issue)
        newPos == newPosFrom(q, 1, 0)
    IN  IF position >= 0 THEN CQResult(q, db, position, "item already in queue")
        ELSE CQResult(IF Len(q) = 0 THEN Append(q, item) ELSE InsertAt(q, newPos, item),
                      addAtPosition(db, item, newPos), newPos, "")

\* Remove: position is the index of the removed item, -1 if there is none
Remove(q, db, issue) ==
    LET itemIndex == FindItem(q, issue)
    IN  IF itemIndex < 0 THEN CQResult(q, db, -1, "")
        ELSE CQResult(RemoveAt(q, itemIndex), remove(db, q[itemIndex + 1].Issue),
                      itemIndex, "")

UpdateVersion(q, db, item) ==
    LET stored == addVersionID(db, item)
    IN  CQResult([i \in 1..Len(q) |->
                     IF q[i].Issue = item.Issue THEN [q[i] EXCEPT !.Version = item.Version]
                     ELSE q[i]],
                 stored.db, 0,
                 IF stored.err = "" THEN "" ELSE "updating version")

\* pull requests 101 and 102, and the patch v101 of pull request 101 enqueued
\* by its id
EnqueueInputs == {NewItem("101", ""), NewItem("102", ""), NewItem("v101", "v101")}

VersionOf(issue) ==
    CASE issue = "101" -> "v101"
      [] issue = "102" -> "v102"
      [] OTHER -> issue

RemoveInputs == {"101", "102", "v101", "v102"}

InitCQ ==
    /\ GraphIdle /\ AggIdle /\ ConcIdle
    /\ QueueIdle

StoreCQ(op, issue, r) ==
    /\ queue' = r.queue
    /\ dbQueue' = r.db
    /\ cqRet' = [op |-> op, issue |-> issue, position |-> r.position, err |-> r.err]
    /\ UNCHANGED <<graphVars, aggVars, concVars>>

DoEnqueue(item) == StoreCQ("Enqueue", item.Issue, Enqueue(queue, dbQueue, item))

DoEnqueueAtFront(item) ==
    StoreCQ("EnqueueAtFront", item.Issue, EnqueueAtFront(queue, dbQueue, item))

DoUpdateVersion(item) ==
    StoreCQ("UpdateVersion", item.Issue,
            UpdateVersion(queue, dbQueue, [item EXCEPT !.Version = VersionOf(item.Issue)]))

DoRemove(issue) == StoreCQ("Remove", issue, Remove(queue, dbQueue, issue))

NextCQ ==
    \/ \E item \in EnqueueInputs : DoEnqueue(item)
    \/ \E item \in EnqueueInputs : DoEnqueueAtFront(item)
    \/ \E item \in EnqueueInputs : DoUpdateVersion(item)
    \/ \E issue \in RemoveInputs : DoRemove(issue)

SpecCQ == InitCQ /\ [][NextCQ]_vars

-----------------------------------------------------------------------------
(* Properties of the commit queue *)

HasVersion(item) == item.Version # ""

\* no item without a version precedes an item with a version
PrefixOK(q) == \A i, j \in 1..Len(q) : (i < j /\ HasVersion(q[j])) => HasVersion(q[i])

\* the number of items with a version at the head of the queue
LeadingRun(q) ==
    CHOOSE n \in 0..Len(q) :
        /\ \A i \in 1..n : HasVersion(q[i])
        /\ n < Len(q) => ~HasVersion(q[n + 1])

\* the indices of the items FindItem compares equal to the issue
Matches(q, issue) ==
    {i \in 1..Len(q) : q[i].Issue = issue \/ q[i].Version = issue \/ q[i].PatchId = issue}

FirstMatch(q, issue) == CHOOSE i \in Matches(q, issue) : \A j \in Matches(q, issue) : i <= j

HasIssue(q, issue) == \E i \in 1..Len(q) : q[i].Issue = issue

\* C8 as stated: the items with a version form a prefix of the queue in every
\* reachable state
ProcessingPrefixAsStated == PrefixOK(queue)

\* C8, amended: Enqueue, EnqueueAtFront and Remove keep the items with a version
\* a prefix of the queue, and so does an UpdateVersion of an item that no item
\* without a version precedes
ProcessingPrefix ==
    [][(/\ PrefixOK(queue)
        /\ \/ cqRet'.op \in {"Enqueue", "EnqueueAtFront", "Remove"}
           \/ /\ cqRet'.op = "UpdateVersion"
              /\ \A k \in 1..Len(queue) :
                    queue[k].Issue = cqRet'.issue => k <= LeadingRun(queue) + 1)
       => PrefixOK(queue')]_vars

\* C8 witness: the second item of three got its version after the first
ProcessingPrefixWitness ==
    /\ cqRet.op = "UpdateVersion" /\ cqRet.err = ""
    /\ Len(queue) = 3
    /\ HasVersion(queue[1]) /\ HasVersion(queue[2]) /\ ~HasVersion(queue[3])
    /\ queue[2].Issue = cqRet.issue

\* C9 as stated: EnqueueAtFront of an issue no item has puts the item right
\* after the items with a version and returns its index; no item with a version
\* comes after it, and the items that were there keep their order
EnqueueAtFrontAsStated ==
    [][(cqRet'.op = "EnqueueAtFront" /\ ~HasIssue(queue, cqRet'.issue))
       => LET pos == cqRet'.position
          IN  /\ cqRet'.err = ""
              /\ Len(queue') = Len(queue) + 1
              /\ pos \in 0..Len(queue)
              /\ queue'[pos + 1].Issue = cqRet'.issue
              /\ \A j \in 1..Len(queue') : j > pos + 1 => ~HasVersion(queue'[j])
              /\ \A j \in 1..pos : HasVersion(queue'[j])
              /\ RemoveAt(queue', pos) = queue]_vars

\* C9, amended: EnqueueAtFront of an issue that FindItem does not find puts the
\* item right after the leading run of items with a version and returns its
\* index; the items that were there keep their order; when the items with a
\* version were a prefix of the queue, none of them comes after the new item
EnqueueAtFrontPosition ==
    [][(cqRet'.op = "EnqueueAtFront" /\ Matches(queue, cqRet'.issue) = {})
       => LET pos == cqRet'.position
          IN  /\ cqRet'.err = ""
              /\ pos = LeadingRun(queue)
              /\ Len(queue') = Len(queue) + 1
              /\ queue'[pos + 1].Issue = cqRet'.issue
              /\ ~HasVersion(queue'[pos + 1])
              /\ RemoveAt(queue', pos) = queue
              /\ PrefixOK(queue)
                 => \A j \in 1..Len(queue') : j > pos + 1 => ~HasVersion(queue'[j])
              /\ dbQueue' = queue']_vars

\* C9 witness: the item was put between an item with a version and an item
\* without one
EnqueueAtFrontPositionWitness ==
    /\ cqRet.op = "EnqueueAtFront" /\ cqRet.err = "" /\ cqRet.position = 1
    /\ Len(queue) = 3
    /\ HasVersion(queue[1])
    /\ queue[2].Issue = cqRet.issue
    /\ ~HasVersion(queue[3])

\* C10 as stated: Enqueue and EnqueueAtFront of an issue some item has return
\* that item's position and the error and leave the queue as it is; Enqueue of
\* an issue no item has appends the item and returns the previous length
EnqueueDuplicateAsStated ==
    [][(cqRet'.op \in {"Enqueue", "EnqueueAtFront"})
       => IF HasIssue(queue, cqRet'.issue)
          THEN /\ cqRet'.err = "item already in queue"
               /\ queue[cqRet'.position + 1].Issue = cqRet'.issue
               /\ queue' = queue
          ELSE cqRet'.op = "Enqueue"
               => /\ cqRet'.err = ""
                  /\ cqRet'.position = Len(queue)
                  /\ Len(queue') = Len(queue) + 1
                  /\ SubSeq(queue', 1, Len(queue)) = queue
                  /\ queue'[Len(queue')].Issue = cqRet'.issue]_vars

\* C10, amended: Enqueue and EnqueueAtFront of an issue that equals the issue,
\* the version or the patch id of a queued item return the position of the
\* first such item and the error and leave the queue and the store as they
\* are; Enqueue of any other issue appends the item and returns the previous
\* length
EnqueueDuplicate ==
    [][(cqRet'.op \in {"Enqueue", "EnqueueAtFront"})
       => IF Matches(queue, cqRet'.issue) # {}
          THEN /\ cqRet'.err = "item already in queue"
               /\ cqRet'.position = FirstMatch(queue, cqRet'.issue) - 1
               /\ queue' = queue
               /\ dbQueue' = dbQueue
          ELSE cqRet'.op = "Enqueue"
               => /\ cqRet'.err = ""
                  /\ cqRet'.position = Len(queue)
                  /\ Len(queue') = Len(queue) + 1
                  /\ SubSeq(queue', 1, Len(queue)) = queue
                  /\ queue'[Len(queue')].Issue = cqRet'.issue
                  /\ dbQueue' = queue']_vars

\* C10 witness: the issue of the second item was enqueued again
EnqueueDuplicateWitness ==
    /\ cqRet.op = "Enqueue" /\ cqRet.err = "item already in queue"
    /\ cqRet.position = 1
    /\ Len(queue) = 2
    /\ queue[2].Issue = cqRet.issue

-----------------------------------------------------------------------------
(* The execution cap: tasks that have already been restarted up to, or one  *)
(* short of, evergreen.MaxTaskExecution times                               *)

StrandedDetail == [Status |-> TaskFailed, Description |-> "stranded"]

\* the callers of TryResetTask: the UI and the REST API with no end detail,
\* the monitor with and without one
CapResetRequests ==
    {<<UIPackage, NilDetail>>, <<RESTV2Package, NilDetail>>,
     <<MonitorPackage, NilDetail>>, <<MonitorPackage, StrandedDetail>>}

\* the tasks ts after the task id has been restarted n times
atExecution(ts, id, n) == [ts EXCEPT ![id].Execution = n]

CapInit ==
    /\ \E n \in {MaxTaskExecution - 1, MaxTaskExecution} :
          tasks = atExecution(Chain(PatchVersionRequester, "b1", "b1", TaskSucceeded, FALSE),
                              "A", n)
    /\ builds = [b \in {"b1"} |-> NewBuild(b)]
    /\ versions = [v \in {VersionId} |->
                     [Id |-> v, Status |-> VersionCreated, Aborted |-> FALSE,
                      Requester |-> PatchVersionRequester]]
    /\ patches = [v \in {VersionId} |-> PatchCreated]
    /\ events = [t \in DOMAIN tasks |-> 0]
    /\ agent = [t \in DOMAIN tasks |-> NoAgent]
    /\ lastOp = [op |-> "Init", task |-> "", arg |-> "", err |-> "", blocked |-> {}]
    /\ QueueIdle /\ AggIdle /\ ConcIdle

ResetAtCap(id) ==
    /\ tasks[id].Execution \in (MaxTaskExecution - 1)..MaxTaskExecution
    /\ \E r \in CapResetRequests :
          StoreOp(TryResetTask(CurrentDB, id, "user", r[1], r[2]), "TryResetTask", id, r[1])
    /\ agent' = IF tasks'[id].Execution # tasks[id].Execution
                THEN [agent EXCEPT ![id] = NoAgent] ELSE agent
    /\ UNCHANGED <<cqVars, aggVars, concVars>>

NextCap ==
    \/ \E id \in DOMAIN tasks : Dispatch(id)
    \/ \E id \in DOMAIN tasks : Start(id)
    \/ \E id \in DOMAIN tasks, status \in {TaskSucceeded, TaskFailed} : End(id, status)
    \/ \E id \in DOMAIN tasks : ResetAtCap(id)

SpecCap == CapInit /\ [][NextCap]_vars

TryResetStep(id) == lastOp'.op = "TryResetTask" /\ lastOp'.task = id

FromUI(origin) == origin = UIPackage \/ origin = RESTV2Package

\* C13: a call of TryResetTask increments the execution number of the task only
\* when the task was finished, or had reached the execution cap and the origin
\* is the UI or the REST API; an unfinished task below the cap is never reset
ResetOnlyFinishedOrForced ==
    [][\A id \in DOMAIN tasks :
          TryResetStep(id) /\ ResetStep(id)
          => \/ IsFinished(tasks[id])
             \/ tasks[id].Execution >= MaxTaskExecution /\ FromUI(lastOp'.arg)]_vars

\* C14: for an origin that is neither the UI nor the REST API, TryResetTask on a
\* task at the execution cap never increments the execution number: it leaves
\* a finished task as it is, finishes an unfinished one, and returns no error
CapNeverExceededByAutomation ==
    [][\A id \in DOMAIN tasks :
          /\ TryResetStep(id)
          /\ ~FromUI(lastOp'.arg)
          /\ tasks[id].Execution >= MaxTaskExecution
          => /\ tasks'[id].Execution = tasks[id].Execution
             /\ lastOp'.err = ""
             /\ IF IsFinished(tasks[id]) THEN tasks' = tasks ELSE IsFinished(tasks'[id])]_vars

-----------------------------------------------------------------------------
(* Store failures during the blocking propagation of MarkEnd                *)

MaxStoreCalls == 4  \* the calls of a propagation, up to which one may fail

\* the number of calls left before the failing one, after one more call
\* (0: no call fails)
afterCall(n) == IF n = 0 THEN 0 ELSE n - 1

RECURSIVE UpdateBlockedDependenciesFailing(_, _, _)
RECURSIVE blockEachFailing(_, _, _, _, _)

\* the rest of the loop of UpdateBlockedDependencies once the recursive call
\* for dependentTasks[i] has returned r
blockRest(r, id, dependentTasks, i) ==
    IF r.err # "" THEN r
    ELSE blockEachFailing(r.tasks, id, dependentTasks, i + 1, r.n)

\* the loop of UpdateBlockedDependencies when the n-th store call from here on fails
blockEachFailing(ts, id, dependentTasks, i, n) ==
    IF i > Len(dependentTasks) THEN [tasks |-> ts, n |-> n, err |-> ""]
    ELSE IF n = 1
    THEN [tasks |-> ts, n |-> 0, err |-> "marking dependency unattainable"]
    ELSE blockRest(
             UpdateBlockedDependenciesFailing(
                 MarkUnattainableDependency(ts, dependentTasks[i], id, TRUE),
                 dependentTasks[i], afterCall(n)),
             id, dependentTasks, i)

\* UpdateBlockedDependencies when the n-th store call from here on fails
UpdateBlockedDependenciesFailing(ts, id, n) ==
    IF n = 1
    THEN [tasks |-> ts, n |-> 0, err |-> "getting tasks depending on task"]
    ELSE blockEachFailing(ts, id, FindAllUnmarkedBlockedDependencies(ts, id), 1, afterCall(n))

\* MarkEnd once UpdateBlockedDependencies has returned r
afterBlocking(d, t, finishTime, detail, r) ==
    IF r.err # ""
    THEN [d EXCEPT !.tasks = r.tasks, !.err = "updating blocked dependencies"]
    ELSE MarkEnd(d, t, finishTime, detail)

\* MarkEnd when the n-th store call of its blocking propagation fails
MarkEndFailing(d, t, finishTime, detail, n) ==
    IF IsDoubleFinish(t, detail) THEN d
    ELSE afterBlocking(d, t, finishTime, detail,
                       UpdateBlockedDependenciesFailing(
                           TaskMarkEnd(d.tasks, t.Id, finishTime, recordedDetail(t, detail)),
                           t.Id, n))

\* a worker reports the end of its task while the store fails
EndFailing(id, status, n) ==
    /\ tasks[id].Status \in {TaskDispatched, TaskStarted}
    /\ agent[id].n = 0
    /\ StoreOp(MarkEndFailing(CurrentDB, tasks[id], 1,
                              [Status |-> status, Description |-> ""], n),
               "MarkEnd", id, status)
    /\ agent' = [agent EXCEPT ![id] = [reported |-> status, n |-> 1]]
    /\ UNCHANGED <<cqVars, aggVars, concVars>>

NextFail ==
    \/ \E id \in DOMAIN tasks : Dispatch(id)
    \/ \E id \in DOMAIN tasks : Start(id)
    \/ \E id \in DOMAIN tasks, status \in {TaskSucceeded, TaskFailed} : End(id, status)
    \/ \E id \in DOMAIN tasks, status \in {TaskSucceeded, TaskFailed}, n \in 1..MaxStoreCalls :
          EndFailing(id, status, n)

SpecFail == Init /\ [][NextFail]_vars

\* the dependency edges marked unattainable
MarkedEdges(ts) == {p \in (DOMAIN ts) \X (DOMAIN ts) : Marked(ts, p[1], p[2])}

\* the edges a complete propagation of the finish of id marks
FullyBlocked(id) ==
    MarkedEdges(UpdateBlockedDependencies([tasks EXCEPT ![id].Status = tasks'[id].Status], id))

\* C20: when a store call of UpdateBlockedDependencies fails during MarkEnd,
\* MarkEnd returns the error and the call leaves no partial blocking: the edges
\* it has marked are either none or all of those the finish should block
FailedPropagationLeavesNoPartialBlocking ==
    [][\A id \in DOMAIN tasks :
          EndStep(id) /\ lastOp'.err # ""
          => \/ MarkedEdges(tasks') = MarkedEdges(tasks)
             \/ MarkedEdges(tasks') = FullyBlocked(id)]_vars

-----------------------------------------------------------------------------
(* Aborting tasks: a plain task A and a display task DT that owns the one   *)
(* execution task E.  With one execution task sort.Sort(task.ByPriority)    *)
(* leaves the list of UpdateDisplayTaskForTask as it is.                    *)

DefaultTaskActivator == ""

\* evergreen.IsSystemActivator
IsSystemActivator(caller) == caller \in {DefaultTaskActivator, APIServerTaskActivator}

\* task.DeactivateTasks
DeactivateTasks(ts, ids) ==
    [id \in DOMAIN ts |->
        IF \E i \in 1..Len(ids) : ids[i] = id THEN [ts[id] EXCEPT !.Activated = FALSE]
        ELSE ts[id]]

\* Task.SetAborted
SetAborted(ts, id) == [ts EXCEPT ![id].Aborted = TRUE]

\* task.Find(task.ByIds(ids))
TasksByIds(ts, ids) ==
    LET found == SelectSeq(ids, LAMBDA id : id \in DOMAIN ts)
    IN  [i \in 1..Len(found) |-> ts[found[i]]]

RECURSIVE latestFinish(_, _, _)
latestFinish(execTasks, i, endTime) ==
    IF i > Len(execTasks) THEN endTime
    ELSE latestFinish(execTasks, i + 1,
                      IF execTasks[i].FinishTime > endTime THEN execTasks[i].FinishTime
                      ELSE endTime)

\* the update UpdateDisplayTaskForTask writes to the display task dt, given
\* its execution tasks, the task statusTask and the latest finish time
displayUpdate(ts, dt, execTasks, statusTask, endTime) ==
    LET hasFinishedTasks == \E i \in 1..Len(execTasks) : IsFinished(execTasks[i])
        hasTasksToRun ==
            \E i \in 1..Len(execTasks) :
               /\ ~IsFinished(execTasks[i])
               /\ IsDispatchable(execTasks[i]) \/ IsAbortable(execTasks[i])
               /\ ~Blocked(execTasks[i])
        mixed == hasFinishedTasks /\ hasTasksToRun
    IN  [ts EXCEPT ![dt.Id].Status = IF mixed THEN TaskStarted ELSE statusTask.Status,
                   ![dt.Id].Details = IF mixed THEN NoDetails ELSE statusTask.Details,
                   ![dt.Id].Activated =
                       dt.Activated \/ \E i \in 1..Len(execTasks) : execTasks[i].Activated,
                   ![dt.Id].FinishTime =
                       IF endTime # 0 /\ ~hasTasksToRun THEN endTime ELSE @]

\* UpdateDisplayTaskForTask once the execution tasks have been read
updateDisplayTask(d, dt, execTasks) ==
    [d EXCEPT !.tasks = displayUpdate(@, dt, execTasks, execTasks[1],
                                      latestFinish(execTasks, 1, 0))]

UpdateDisplayTaskForTask(d, t) ==
    IF ~IsPartOfDisplay(t) THEN [d EXCEPT !.err = "task is not an execution task"]
    ELSE IF t.DisplayTaskId \notin DOMAIN d.tasks
    THEN [d EXCEPT !.err = "display task not found for task"]
    ELSE IF ~d.tasks[t.DisplayTaskId].DisplayOnly
    THEN [d EXCEPT !.err = "task is not a display task"]
    ELSE updateDisplayTask(d, d.tasks[t.DisplayTaskId],
                           TasksByIds(d.tasks, d.tasks[t.DisplayTaskId].ExecutionTasks))

\* Dequeue of a failing commit queue item

MaxRestarts == 2    \* executions archived by restarts, over all merge tasks

MergeTestRequester == "merge_test"

MergeTasks == <<"M1", "M2", "M3">>

ItemVersions == <<"v1", "v2", "v3">>

\* what a call of the dequeue works on: the collections, the stored queue and
\* the effects of the call so far, in order
DQ(d, dbq) == [d EXCEPT !.dbq = dbq, !.log = <<>>]

NilDereference == "invalid memory address or nil pointer dereference"

\* task.FindMergeTaskForVersion: "" when the version has no merge task
FindMergeTaskForVersion(ts, version) ==
    LET hits == idsWhere(ts, LAMBDA t : t.Version = version /\ t.Requester = MergeTestRequester)
    IN  IF Len(hits) = 0 THEN "" ELSE hits[1]

\* Task.RemoveDependency
RemoveDependency(ts, id, dependencyId) ==
    [ts EXCEPT ![id].DependsOn = SelectSeq(@, LAMBDA dep : dep.TaskId # dependencyId)]

\* Task.AddDependency
AddDependency(ts, id, d) ==
    IF HasEdge(ts[id], d.TaskId)
    THEN [ts EXCEPT ![id].DependsOn =
             [i \in 1..Len(@) |-> IF @[i].TaskId = d.TaskId
                                  THEN [@[i] EXCEPT !.Status = d.Status] ELSE @[i]]]
    ELSE [ts EXCEPT ![id].DependsOn = Append(@, d)]

\* Task.SetDisabledPriority
SetDisabledPriority(ts, id) == [ts EXCEPT ![id].Priority = -1, ![id].Activated = FALSE]

\* RestartTasksInVersion with abortInProgress: the finished tasks of the
\* version go through TryResetTask, the tasks in progress are aborted
RECURSIVE restartTasks(_, _, _, _)
restartTasks(d, ids, i, caller) ==
    IF i > Len(ids) THEN d
    ELSE IF IsFinished(d.tasks[ids[i]])
    THEN restartTasks(TryResetTask(d, ids[i], caller, RESTV2Package, NilDetail),
                      ids, i + 1, caller)
    ELSE IF IsAbortable(d.tasks[ids[i]])
    THEN restartTasks([d EXCEPT !.tasks = SetAborted(@, ids[i])], ids, i + 1, caller)
    ELSE restartTasks(d, ids, i + 1, caller)

RestartTasksInVersion(d, version, caller) ==
    restartTasks([d EXCEPT !.log = Append(@, <<"restart", version>>)],
                 idsWhere(d.tasks, LAMBDA t : t.Version = version), 1, caller)

\* a loop that skips an item without a version instead of returning at it
RECURSIVE restartItemsThrough(_, _, _, _, _, _)
restartItemsThrough(d, q, i, version, foundItem, caller) ==
    IF i > Len(q) THEN d
    ELSE IF q[i].Version = ""
    THEN restartItemsThrough(d, q, i + 1, version, foundItem, caller)
    ELSE IF q[i].Version = version
    THEN restartItemsThrough(d, q, i + 1, version, TRUE, caller)
    ELSE IF foundItem
    THEN restartItemsThrough(RestartTasksInVersion(d, q[i].Version, caller),
                             q, i + 1, version, foundItem, caller)
    ELSE restartItemsThrough(d, q, i + 1, version, foundItem, caller)

\* the loop of RestartItemsAfterVersion
RECURSIVE restartItemsFrom(_, _, _, _, _, _)
restartItemsFrom(d, q, i, version, foundItem, caller) ==
    IF i > Len(q) THEN d
    ELSE IF q[i].Version = "" THEN [d EXCEPT !.err = ""]
    ELSE IF q[i].Version = version
    THEN restartItemsFrom(d, q, i + 1, version, TRUE, caller)
    ELSE IF foundItem
    THEN restartItemsFrom(RestartTasksInVersion(d, q[i].Version, caller),
                          q, i + 1, version, foundItem, caller)
    ELSE restartItemsFrom(d, q, i + 1, version, foundItem, caller)

RestartItemsAfterVersion(d, q, version, caller) ==
    restartItemsFrom(d, q, 1, version, FALSE, caller)

\* removeNextMergeTaskDependency once the next merge task is known to exist
relinkNext(d, q, currentIndex, nextMerge, currentMerge) ==
    IF currentMerge = "" THEN [d EXCEPT !.err = NilDereference]
    ELSE IF currentIndex = 0
    THEN [d EXCEPT !.tasks = RemoveDependency(@, nextMerge, currentMerge)]
    ELSE IF FindMergeTaskForVersion(d.tasks, q[currentIndex].Version) = ""
    THEN [d EXCEPT !.tasks = RemoveDependency(@, nextMerge, currentMerge),
                   !.err = "no merge task found"]
    ELSE [d EXCEPT !.tasks =
             AddDependency(RemoveDependency(@, nextMerge, currentMerge), nextMerge,
                           [Dep(FindMergeTaskForVersion(d.tasks, q[currentIndex].Version),
                                AllStatuses)
                               EXCEPT !.Finished =
                                   IsFinished(d.tasks[FindMergeTaskForVersion(
                                                  d.tasks, q[currentIndex].Version)])])]

\* a removal of the dependency that does not link the next merge task to the
\* previous one
removeWithoutRelink(d, q, currentIssue) ==
    LET currentIndex == FindItem(q, currentIssue)
    IN  IF currentIndex < 0 THEN [d EXCEPT !.err = "commit queue item not found"]
        ELSE IF currentIndex + 1 >= Len(q) THEN d
        ELSE IF q[currentIndex + 2].Version = "" THEN d
        ELSE IF FindMergeTaskForVersion(d.tasks, q[currentIndex + 2].Version) = ""
        THEN [d EXCEPT !.err = "no merge task found"]
        ELSE relinkNext(d, q, 0,
                        FindMergeTaskForVersion(d.tasks, q[currentIndex + 2].Version),
                        FindMergeTaskForVersion(d.tasks, q[currentIndex + 1].Version))

\* removeNextMergeTaskDependency; currentIndex counts from 0
removeNextMergeTaskDependency(d, q, currentIssue) ==
    LET currentIndex == FindItem(q, currentIssue)
    IN  IF currentIndex < 0 THEN [d EXCEPT !.err = "commit queue item not found"]
        ELSE IF currentIndex + 1 >= Len(q) THEN d
        ELSE IF q[currentIndex + 2].Version = "" THEN d
        ELSE IF FindMergeTaskForVersion(d.tasks, q[currentIndex + 2].Version) = ""
        THEN [d EXCEPT !.err = "no merge task found"]
        ELSE relinkNext(d, q, currentIndex,
                        FindMergeTaskForVersion(d.tasks, q[currentIndex + 2].Version),
                        FindMergeTaskForVersion(d.tasks, q[currentIndex + 1].Version))

\* preventMergeForItem
preventMergeForItem(d, item) ==
    IF FindMergeTaskForVersion(d.tasks, item.Version) = ""
    THEN [d EXCEPT !.err = "merge task doesn't exist"]
    ELSE [d EXCEPT !.tasks = SetDisabledPriority(@, FindMergeTaskForVersion(@, item.Version)),
                   !.log = Append(@, <<"prevent", item.Version>>)]

\* CommitQueue.RemoveItemAndPreventMerge with versionExists
RemoveItemAndPreventMerge(d, q, issue) ==
    IF FindItem(q, issue) < 0 THEN d
    ELSE preventMergeForItem(
             [d EXCEPT !.dbq = Remove(q, @, issue).db,
                       !.log = Append(@, <<"remove", q[FindItem(q, issue) + 1].Version>>)],
             q[FindItem(q, issue) + 1])

\* CancelPatch: the version of the patch is deactivated and its tasks in
\* progress are aborted
CancelPatch(d, version) ==
    [d EXCEPT !.tasks = [id \in DOMAIN @ |->
                            IF @[id].Version # version THEN @[id]
                            ELSE [@[id] EXCEPT !.Activated = FALSE,
                                               !.Aborted = @ \/ IsAbortable(d.tasks[id])]],
              !.log = Append(@, <<"cancel", version>>)]

\* tryDequeueAndAbortCommitQueueVersion after the item was removed
afterRemove(r, q, issue, isPRMerge) ==
    IF r.err # "" THEN r
    ELSE IF FindItem(q, issue) < 0
    THEN [r EXCEPT !.err = "no commit queue entry removed"]
    ELSE CancelPatch([r EXCEPT !.log = IF isPRMerge
                                       THEN Append(@, <<"report", issue>>) ELSE @],
                     issue)

\* tryDequeueAndAbortCommitQueueVersion after the dependency was removed: the
\* error of the removal is logged and dropped
afterUnlink(r, q, issue, isPRMerge) ==
    IF r.err = NilDereference THEN r
    ELSE afterRemove(RemoveItemAndPreventMerge([r EXCEPT !.err = ""], q, issue),
                     q, issue, isPRMerge)

tryDequeueAndAbortCommitQueueVersion(d, q, issue, isPRMerge) ==
    afterUnlink(removeNextMergeTaskDependency(d, q, issue), q, issue, isPRMerge)

\* SendCommitQueueResult at the end of DequeueAndRestartForTask
sendResult(r, version) ==
    IF r.err # "" THEN r ELSE [r EXCEPT !.log = Append(@, <<"report", version>>)]

\* DequeueAndRestartForTask after the later items were restarted
afterRestart(r, q, t, isPRMerge) ==
    IF r.err # "" THEN r
    ELSE IF t.Version \notin DOMAIN r.patches \/ r.patches[t.Version] = ""
    THEN [r EXCEPT !.err = "patch not found"]
    ELSE sendResult(tryDequeueAndAbortCommitQueueVersion(r, q, t.Version, isPRMerge),
                    t.Version)

\* a dequeue that removes the failing item before it restarts the later ones
DequeueBeforeRestart(d, t, caller, isPRMerge) ==
    IF t.Version \notin DOMAIN d.patches \/ d.patches[t.Version] = ""
    THEN [d EXCEPT !.err = "patch not found"]
    ELSE sendResult(
             RestartItemsAfterVersion(
                 tryDequeueAndAbortCommitQueueVersion(d, d.dbq, t.Version, isPRMerge),
                 tryDequeueAndAbortCommitQueueVersion(d, d.dbq, t.Version, isPRMerge).dbq,
                 t.Version, caller),
             t.Version)

\* DequeueAndRestartForTask without a queue handle: the queue is read from the store
DequeueAndRestartForTask(d, t, caller, isPRMerge) ==
    afterRestart(RestartItemsAfterVersion(d, d.dbq, t.Version, caller), d.dbq, t, isPRMerge)

\* task.ActivateTasks
ActivateTasks(ts, ids, caller) ==
    [id \in DOMAIN ts |->
        IF \E i \in 1..Len(ids) : ids[i] = id
        THEN [ts[id] EXCEPT !.Activated = TRUE, !.ActivatedBy = caller]
        ELSE ts[id]]

\* task.GetRecursiveDependenciesUp: the tasks that the tasks of ids depend
\* on, directly or through other tasks
RECURSIVE dependenciesUp(_, _, _)
dependenciesUp(ts, ids, found) ==
    LET next == {x \in DOMAIN ts \ found :
                    \E id \in ids : HasEdge(ts[id], x)}
    IN  IF next = {} THEN found ELSE dependenciesUp(ts, next, found \cup next)

GetRecursiveDependenciesUp(ts, ids) ==
    LET found == dependenciesUp(ts, {ids[i] : i \in 1..Len(ids)}, {})
    IN  idsWhere(ts, LAMBDA t : t.Id \in found /\ \A i \in 1..Len(ids) : ids[i] # t.Id)

\* the task and, for a display task, its execution tasks
originalTasks(ts, t) ==
    <<t.Id>> \o (IF t.DisplayOnly
                 THEN SelectSeq(t.ExecutionTasks, LAMBDA id : id \in DOMAIN ts) ELSE <<>>)

\* SetActiveState(caller, false, t): the tasks it deactivates; with a member
\* of a single-host task group the later members of the group
tasksToDeactivate(ts, t) ==
    originalTasks(ts, t) \o
    (IF IsPartOfSingleHostTaskGroup(t)
     THEN SelectSeq(FindTaskGroupFromBuild(ts, t.BuildId, t.TaskGroup),
                    LAMBDA id : ts[id].TaskGroupOrder > t.TaskGroupOrder)
     ELSE <<>>)

\* a test that takes any finished dependency, in the group or not
resetAnyFinishedDependency(ts, t, dep) ==
    /\ IsPartOfSingleHostTaskGroup(t)
    /\ IsFinished(ts[dep])

\* a dependency of a member of a single-host task group that SetActiveState
\* resets: a finished member of the same group
resetInsteadOfActivate(ts, t, dep) ==
    /\ IsPartOfSingleHostTaskGroup(t)
    /\ ts[dep].TaskGroup = t.TaskGroup
    /\ t.TaskGroup # ""
    /\ IsFinished(ts[dep])

\* SetActiveState(caller, true, t): the loop over the dependencies deps as
\* they were read (in ts)
RECURSIVE resetFinishedGroupDependencies(_, _, _, _, _)
resetFinishedGroupDependencies(d, ts, t, deps, i) ==
    IF i > Len(deps) THEN d
    ELSE IF resetInsteadOfActivate(ts, t, deps[i])
    THEN resetFinishedGroupDependencies(resetTask(d, deps[i]), ts, t, deps, i + 1)
    ELSE resetFinishedGroupDependencies(d, ts, t, deps, i + 1)

\* SetActiveState(caller, true, t): the tasks it activates
tasksToActivate(ts, t, deps) ==
    SelectSeq(deps, LAMBDA dep : ~resetInsteadOfActivate(ts, t, dep)) \o originalTasks(ts, t)

\* the display task of an execution task is refreshed
displayUpdated(d, t) == IF IsPartOfDisplay(t) THEN UpdateDisplayTaskForTask(d, t) ELSE d

\* the item of a merge test that is deactivated is dequeued
dequeuedIfMergeTest(d, t, caller) ==
    IF t.Requester = MergeTestRequester
    THEN DequeueAndRestartForTask(d, t, caller, FALSE)
    ELSE d

\* SetActiveState(caller, true, t) with the dependencies deps of t
activate(d, caller, t, deps) ==
    UpdateBuildAndVersionStatusForTask(
        [displayUpdated(resetFinishedGroupDependencies(d, d.tasks, t, deps, 1), t)
            EXCEPT !.tasks = ActivateTasks(@, tasksToActivate(d.tasks, t, deps), caller)],
        t)

\* an activation that stops at the direct dependencies
SetActiveStateDirectDependencies(d, caller, active, t) ==
    IF active
    THEN activate(d, caller, t,
                  IF t.OverrideDependencies THEN <<>>
                  ELSE idsWhere(d.tasks, LAMBDA x : HasEdge(t, x.Id)))
    ELSE d

\* a deactivation without the guard on the caller and the activator
SetActiveStateUnguarded(d, caller, active, t) ==
    IF active THEN d
    ELSE UpdateBuildAndVersionStatusForTask(
             [displayUpdated(dequeuedIfMergeTest(d, t, caller), t)
                 EXCEPT !.tasks = DeactivateTasks(@, tasksToDeactivate(d.tasks, t))],
             t)

\* SetActiveState(caller, active, t)
SetActiveState(d, caller, active, t) ==
    IF active
    THEN activate(d, caller, t,
                  IF t.OverrideDependencies THEN <<>>
                  ELSE GetRecursiveDependenciesUp(d.tasks, originalTasks(d.tasks, t)))
    ELSE IF ~IsSystemActivator(caller) \/ IsSystemActivator(t.ActivatedBy)
    THEN UpdateBuildAndVersionStatusForTask(
             [displayUpdated(dequeuedIfMergeTest(d, t, caller), t)
                 EXCEPT !.tasks = DeactivateTasks(@, tasksToDeactivate(d.tasks, t))],
             t)
    ELSE UpdateBuildAndVersionStatusForTask(d, t)

RECURSIVE AbortTask(_, _, _)
RECURSIVE abortExecutionTasks(_, _, _, _)

\* the loop of AbortTask over the execution tasks, whose errors are discarded
abortExecutionTasks(d, ets, i, caller) ==
    IF i > Len(ets) THEN d
    ELSE abortExecutionTasks([AbortTask(d, ets[i], caller) EXCEPT !.err = ""],
                             ets, i + 1, caller)

\* the end of AbortTask: the abort is recorded once SetActiveState has returned
recordAbort(d, t) ==
    IF d.err # "" THEN d ELSE [d EXCEPT !.tasks = SetAborted(@, t.Id)]

\* AbortTask after the execution tasks of the fetched task t have been aborted
abortFetched(d, t, caller) ==
    IF ~IsAbortable(t) THEN [d EXCEPT !.err = "cannot abort task in this status"]
    ELSE recordAbort(SetActiveState(d, caller, FALSE, t), t)

AbortTask(d, taskId, caller) ==
    IF taskId \notin DOMAIN d.tasks THEN [d EXCEPT !.err = "task not found"]
    ELSE abortFetched(IF d.tasks[taskId].DisplayOnly
                      THEN abortExecutionTasks(d, d.tasks[taskId].ExecutionTasks, 1, caller)
                      ELSE d,
                      d.tasks[taskId], caller)

AbortCallers == {"user", APIServerTaskActivator}

\* the tasks of the version, all activated by the same activator
AbortTasks(by) ==
    [t \in {"A", "DT", "E"} |->
        CASE t = "A" ->
               [NewTask("A", "b1", PatchVersionRequester, <<>>, FALSE)
                   EXCEPT !.ActivatedBy = by]
          [] t = "DT" ->
               [NewTask("DT", "b1", PatchVersionRequester, <<>>, FALSE)
                   EXCEPT !.ActivatedBy = by, !.DisplayOnly = TRUE,
                          !.ExecutionTasks = <<"E">>]
          [] t = "E" ->
               [NewTask("E", "b1", PatchVersionRequester, <<>>, FALSE)
                   EXCEPT !.ActivatedBy = by, !.DisplayTaskId = "DT"]]

InitAbort ==
    /\ \E by \in AbortCallers : tasks = AbortTasks(by)
    /\ builds = [b \in {"b1"} |-> NewBuild(b)]
    /\ versions = [v \in {VersionId} |->
                     [Id |-> v, Status |-> VersionCreated, Aborted |-> FALSE,
                      Requester |-> PatchVersionRequester]]
    /\ patches = [v \in {VersionId} |-> PatchCreated]
    /\ events = [t \in DOMAIN tasks |-> 0]
    /\ agent = [t \in DOMAIN tasks |-> NoAgent]
    /\ lastOp = [op |-> "Init", task |-> "", arg |-> "", err |-> "", blocked |-> {}]
    /\ pc = [t \in {"E"} |-> "idle"]
    /\ local = <<>>
    /\ QueueIdle /\ AggIdle

IsHostTask(t) == ~t.DisplayOnly /\ ~IsPartOfDisplay(t)

DispatchHostTask(id) == IsHostTask(tasks[id]) /\ Dispatch(id)

StartHostTask(id) == IsHostTask(tasks[id]) /\ Start(id)

EndHostTask(id, status) == IsHostTask(tasks[id]) /\ End(id, status)

\* MarkHostTaskDispatched of an execution task, first store call: the task
MarkExecDispatched(id) ==
    /\ IsPartOfDisplay(tasks[id])
    /\ pc[id] = "idle"
    /\ Dispatchable(tasks, id)
    /\ tasks' = MarkAsHostDispatched(tasks, id)
    /\ pc' = [pc EXCEPT ![id] = "UpdateDisplayTaskForTask"]
    /\ lastOp' = Op("MarkAsHostDispatched", id, "", "")
    /\ UNCHANGED <<builds, versions, patches, events, agent, local, cqVars, aggVars>>

\* MarkHostTaskDispatched of an execution task, second store call: its display task
UpdateDisplayOfDispatched(id) ==
    /\ pc[id] = "UpdateDisplayTaskForTask"
    /\ StoreOp(UpdateDisplayTaskForTask(CurrentDB, tasks[id]), "MarkHostTaskDispatched", id, "")
    /\ pc' = [pc EXCEPT ![id] = "idle"]
    /\ UNCHANGED <<agent, local, cqVars, aggVars>>

\* MarkStart of an execution task
StartExec(id) ==
    /\ IsPartOfDisplay(tasks[id])
    /\ pc[id] = "idle"
    /\ tasks[id].Status = TaskDispatched
    /\ StoreOp(UpdateDisplayTaskForTask(MarkStart(CurrentDB, tasks[id]), tasks[id]),
               "MarkStart", id, "")
    /\ UNCHANGED <<agent, cqVars, aggVars, concVars>>

Abort(id, caller) ==
    /\ StoreOp(AbortTask(CurrentDB, id, caller), "AbortTask", id, caller)
    /\ UNCHANGED <<agent, cqVars, aggVars, concVars>>

NextAbort ==
    \/ \E id \in DOMAIN tasks : DispatchHostTask(id)
    \/ \E id \in DOMAIN tasks : StartHostTask(id)
    \/ \E id \in DOMAIN tasks, status \in {TaskSucceeded, TaskFailed} : EndHostTask(id, status)
    \/ \E id \in DOMAIN pc : MarkExecDispatched(id)
    \/ \E id \in DOMAIN pc : UpdateDisplayOfDispatched(id)
    \/ \E id \in DOMAIN pc : StartExec(id)
    \/ \E id \in DOMAIN tasks, caller \in AbortCallers : Abort(id, caller)

SpecAbort == InitAbort /\ [][NextAbort]_vars

AbortStep(id) == lastOp'.op = "AbortTask" /\ lastOp'.task = id

\* the task and, for a display task, its execution tasks
WithExecutionTasks(t) == {t.Id} \cup {t.ExecutionTasks[i] : i \in 1..Len(t.ExecutionTasks)}

\* C17: an AbortTask of a task that is not abortable returns an error and
\* modifies the activated and aborted flags neither of the task nor of any of
\* its execution tasks
RejectedAbortChangesNothing ==
    [][\A id \in DOMAIN tasks :
          AbortStep(id) /\ ~IsAbortable(tasks[id])
          => /\ lastOp'.err # ""
             /\ \A x \in WithExecutionTasks(tasks[id]) :
                   /\ tasks'[x].Activated = tasks[x].Activated
                   /\ tasks'[x].Aborted = tasks[x].Aborted]_vars

\* C18: whenever AbortTask(id, caller) returns without error the task is
\* deactivated and aborted, for every caller and every activator of the task
AbortedImpliesDeactivated ==
    [][\A id \in DOMAIN tasks :
          AbortStep(id) /\ lastOp'.err = ""
          => ~tasks'[id].Activated /\ tasks'[id].Aborted]_vars

\* ---------------------------------------------------------------------------
\* Single-host task groups: three members of one group in one build.  G2
\* depends on G1, G3 may have been created inactive.  A reset of a member is
\* requested with TryResetTask; while the group is reset the store may refuse
\* to archive some of its members.
\* ---------------------------------------------------------------------------

GroupName == "tg"

GroupMember(id, order, dependsOn, activated) ==
    [NewTask(id, "b1", RepotrackerVersionRequester, dependsOn, FALSE)
        EXCEPT !.TaskGroup = GroupName, !.TaskGroupMaxHosts = 1,
               !.TaskGroupOrder = order, !.Activated = activated]

GroupTasks(g3Activated) ==
    [t \in {"G1", "G2", "G3"} |->
        CASE t = "G1" -> GroupMember("G1", 1, <<>>, TRUE)
          [] t = "G2" -> GroupMember("G2", 2, <<Dep("G1", TaskSucceeded)>>, TRUE)
          [] t = "G3" -> GroupMember("G3", 3, <<>>, g3Activated)]

InitGroup ==
    /\ \E a \in BOOLEAN : tasks = GroupTasks(a)
    /\ builds = [b \in {"b1"} |-> NewBuild(b)]
    /\ versions = [v \in {VersionId} |->
                     [Id |-> v, Status |-> VersionCreated, Aborted |-> FALSE,
                      Requester |-> RepotrackerVersionRequester]]
    /\ patches = [v \in {VersionId} |-> ""]
    /\ events = [t \in DOMAIN tasks |-> 0]
    /\ agent = [t \in DOMAIN tasks |-> NoAgent]
    /\ lastOp = [op |-> "Init", task |-> "", arg |-> "", err |-> "", blocked |-> {}]
    /\ QueueIdle /\ AggIdle /\ ConcIdle

\* the members of the group of a task
Members(id) ==
    {m \in DOMAIN tasks : /\ tasks[m].BuildId = tasks[id].BuildId
                          /\ tasks[m].TaskGroup = tasks[id].TaskGroup}

\* the agent reports the end of a running member
EndMember(id, status) ==
    /\ tasks[id].Status \in {TaskDispatched, TaskStarted}
    /\ StoreOp(MarkEnd(CurrentDB, tasks[id], tasks[id].FinishTime + 1,
                       [Status |-> status, Description |-> ""]),
               "MarkEnd", id, status)
    /\ UNCHANGED <<agent, cqVars, aggVars, concVars>>

\* TryResetTask of a member; the store refuses to archive the tasks of failing
ResetMember(id, failing) ==
    /\ TotalExecutions(tasks) < MaxResets
    /\ \E r \in ResetRequests(tasks[id]) :
          StoreOp(TryResetTask([CurrentDB EXCEPT !.failing = failing],
                               id, "user", r[1], r[2]),
                  "TryResetTask", id, r)
    /\ UNCHANGED <<agent, cqVars, aggVars, concVars>>

NextGroup ==
    \/ \E id \in DOMAIN tasks : Dispatch(id)
    \/ \E id \in DOMAIN tasks : Start(id)
    \/ \E id \in DOMAIN tasks, status \in {TaskSucceeded, TaskFailed} : EndMember(id, status)
    \/ \E id \in DOMAIN tasks, failing \in SUBSET {"G2"} : ResetMember(id, failing)

SpecGroup == InitGroup /\ [][NextGroup]_vars

\* the members of the group as checkResetSingleHostTaskGroup reads them in a
\* TryResetTask of id
AtTryReset(id, detail) ==
    SetResetWhenFinished(
        IF detail # NilDetail
        THEN TaskMarkEnd(tasks, id, tasks[id].FinishTime + 1, detail)
        ELSE tasks,
        id)

\* the members of the group as checkResetSingleHostTaskGroup reads them in a
\* MarkEnd of id
AtMarkEnd(id, status) ==
    MarkDependenciesFinished(
        UpdateBlockedDependencies(
            TaskMarkEnd(tasks, id, tasks[id].FinishTime + 1,
                        recordedDetail(tasks[id], [Status |-> status, Description |-> ""])),
            id),
        id, TRUE)

AtGroupCheck(id) ==
    IF lastOp'.op = "TryResetTask" THEN AtTryReset(id, lastOp'.arg[2])
    ELSE AtMarkEnd(id, lastOp'.arg)

\* a step of TryResetTask or MarkEnd on a member of a single-host task group
GroupStep(id) ==
    /\ lastOp'.op \in {"TryResetTask", "MarkEnd"}
    /\ lastOp'.task = id
    /\ IsPartOfSingleHostTaskGroup(tasks[id])

SomeMemberReset(id) == \E m \in Members(id) : ResetStep(m)

\* a TryResetTask that is neither rejected nor stopped by the execution cap
AcceptedTryReset(id) ==
    /\ TryResetStep(id)
    /\ IsPartOfSingleHostTaskGroup(tasks[id])
    /\ lastOp'.err = ""
    /\ tasks[id].Execution < MaxTaskExecution \/ FromUI(lastOp'.arg[1])

\* C15 (as stated): a TryResetTask on a member of a single-host task group
\* sets resetWhenFinished on it (unless the group is reset at once) and resets
\* nothing while a member is unfinished, unblocked and activated; the group is
\* reset only once every member is finished or blocked, and only if a member
\* requested it
GroupResetWaitsForFinishedOrBlocked ==
    [][\A id \in DOMAIN tasks :
          /\ TryResetStep(id) /\ IsPartOfSingleHostTaskGroup(tasks[id])
             => \/ SomeMemberReset(id)
                \/ tasks'[id].ResetWhenFinished /\ tasks' = AtTryReset(id, lastOp'.arg[2])
          /\ GroupStep(id) /\ SomeMemberReset(id)
             => /\ \A m \in Members(id) :
                      IsFinished(AtGroupCheck(id)[m]) \/ Blocked(AtGroupCheck(id)[m])
                /\ \E m \in Members(id) : AtGroupCheck(id)[m].ResetWhenFinished]_vars

\* C15 (amended): a TryResetTask on a member of a single-host task group that
\* is neither rejected nor stopped by the execution cap sets resetWhenFinished
\* on it and resets nothing while a member is unfinished, unblocked and
\* activated; the group is reset only once no member is unfinished, unblocked
\* and activated, and only if a member requested it
GroupResetDeferred ==
    [][\A id \in DOMAIN tasks :
          /\ AcceptedTryReset(id)
             /\ (\E m \in Members(id) : StillToRun(AtGroupCheck(id)[m]))
             => tasks' = AtTryReset(id, lastOp'.arg[2])
          /\ GroupStep(id) /\ SomeMemberReset(id)
             => /\ \A m \in Members(id) : ~StillToRun(AtGroupCheck(id)[m])
                /\ \E m \in Members(id) : AtGroupCheck(id)[m].ResetWhenFinished]_vars

\* a request was deferred and the whole group was reset when its last member
\* finished
GroupResetAfterDeferral ==
    /\ lastOp.op = "MarkEnd"
    /\ IsPartOfSingleHostTaskGroup(tasks[lastOp.task])
    /\ \A m \in Members(lastOp.task) :
          tasks[m].Execution = 1 /\ tasks[m].Status = TaskUndispatched

\* C16: a group reset resets every member of the group or none: a step in
\* which a member is reset resets all of them, and returns no error
GroupResetAllOrNothing ==
    [][\A id \in DOMAIN tasks :
          GroupStep(id) /\ SomeMemberReset(id)
          => /\ \A m \in Members(id) : ResetStep(m)
             /\ lastOp'.err = ""]_vars

\* ---------------------------------------------------------------------------
\* Dequeue of a failing commit queue item.  Item i of the queue has the patch
\* and version v<i> and the merge task M<i>; the first items are processing
\* (they have a version), and the merge task of each depends on the merge
\* task of the item before it.  A patch or a merge task may be missing.
\* ---------------------------------------------------------------------------

MergeTask(i, linked) ==
    [NewTask(MergeTasks[i], BuildOrder[i], MergeTestRequester,
             IF i > 1 /\ linked THEN <<Dep(MergeTasks[i - 1], AllStatuses)>> ELSE <<>>, FALSE)
        EXCEPT !.Version = ItemVersions[i]]

\* the first processing items are processing; the documents of missing are
\* absent, and no merge task depends on an absent one
DequeueInit(processing, missing) ==
    /\ tasks = [id \in {MergeTasks[i] : i \in 1..processing} \ missing |->
                   LET i == CHOOSE k \in 1..3 : MergeTasks[k] = id
                   IN  MergeTask(i, i > 1 /\ MergeTasks[IF i > 1 THEN i - 1 ELSE 1] \notin missing)]
    /\ builds = [b \in {BuildOrder[i] : i \in 1..processing} |->
                   [NewBuild(b) EXCEPT
                       !.Version = ItemVersions[CHOOSE i \in 1..3 : BuildOrder[i] = b]]]
    /\ versions = [v \in {ItemVersions[i] : i \in 1..processing} |->
                     [Id |-> v, Status |-> VersionCreated, Aborted |-> FALSE,
                      Requester |-> MergeTestRequester]]
    /\ patches = [v \in {ItemVersions[i] : i \in 1..3} |->
                    IF v \in missing THEN "" ELSE PatchCreated]
    /\ dbQueue = [i \in 1..3 |->
                    [Issue |-> ItemVersions[i], PatchId |-> ItemVersions[i],
                     Version |-> IF i <= processing THEN ItemVersions[i] ELSE ""]]

MissingDocuments == {{}, {"v1"}, {"v2"}, {"M1"}, {"M2"}, {"M3"}}

InitDequeue ==
    /\ \E processing \in 2..3, missing \in MissingDocuments :
          DequeueInit(processing, missing)
    /\ events = [t \in DOMAIN tasks |-> 0]
    /\ agent = [t \in DOMAIN tasks |-> NoAgent]
    /\ lastOp = [op |-> "Init", task |-> "", arg |-> "", err |-> "", blocked |-> {}]
    /\ queue = <<>>
    /\ cqRet = [op |-> "", issue |-> "", position |-> 0, err |-> ""]
    /\ AggIdle /\ ConcIdle

\* the merge test of a queue item fails or is deactivated: its item is dequeued
Dequeue(id, isPRMerge) ==
    /\ TotalExecutions(tasks) < MaxRestarts
    /\ LET r == DequeueAndRestartForTask(DQ(CurrentDB, dbQueue), tasks[id], "user", isPRMerge)
       IN  /\ Store(r)
           /\ dbQueue' = r.dbq
           /\ lastOp' = Op("DequeueAndRestartForTask", id, tasks[id].Version, r.err)
                           @@ [log |-> r.log]
    /\ UNCHANGED <<agent, queue, cqRet, aggVars, concVars>>

\* the agent reports the end of a dispatched merge task
EndMerge(id, status) ==
    /\ tasks[id].Status = TaskDispatched
    /\ StoreOp(MarkEnd(CurrentDB, tasks[id], tasks[id].FinishTime + 1,
                       [Status |-> status, Description |-> ""]),
               "MarkEnd", id, status)
    /\ UNCHANGED <<agent, cqVars, aggVars, concVars>>

NextDequeue ==
    \/ \E id \in DOMAIN tasks : Dispatch(id)
    \/ \E id \in DOMAIN tasks, status \in {TaskSucceeded, TaskFailed} : EndMerge(id, status)
    \/ \E id \in DOMAIN tasks, isPRMerge \in BOOLEAN : Dequeue(id, isPRMerge)

SpecDequeue == InitDequeue /\ [][NextDequeue]_vars

DequeueStep(id) == lastOp'.op = "DequeueAndRestartForTask" /\ lastOp'.task = id

\* the merge tasks a merge task depends on
MergeDeps(ts, id) ==
    {ts[id].DependsOn[i].TaskId : i \in 1..Len(ts[id].DependsOn)}
        \cap {m \in DOMAIN ts : ts[m].Requester = MergeTestRequester}

\* every processing item of the queue has its merge task
AllMergeTasksExist(ts, q) ==
    \A i \in 1..Len(q) : q[i].Version # "" => FindMergeTaskForVersion(ts, q[i].Version) # ""

\* the merge task of every processing item depends on exactly the merge task
\* of the processing item directly before it
ChainIntact(ts, q) ==
    \A i \in 1..Len(q) :
        q[i].Version # ""
        => MergeDeps(ts, FindMergeTaskForVersion(ts, q[i].Version))
           = IF i > 1 /\ q[IF i > 1 THEN i - 1 ELSE 1].Version # ""
             THEN {FindMergeTaskForVersion(ts, q[i - 1].Version)} ELSE {}

\* the dependency edges of every task
AllEdges(ts) ==
    [id \in DOMAIN ts |-> [i \in 1..Len(ts[id].DependsOn) |-> ts[id].DependsOn[i].TaskId]]

\* the dequeue of the item at position n (from 1) of the queue relinked the chain
Relinked(n) ==
    /\ dbQueue' = RemoveAt(dbQueue, n - 1)
    /\ IF n < Len(dbQueue) /\ dbQueue[IF n < Len(dbQueue) THEN n + 1 ELSE n].Version # ""
       THEN MergeDeps(tasks', FindMergeTaskForVersion(tasks, dbQueue[n + 1].Version))
            = IF n > 1 THEN {FindMergeTaskForVersion(tasks, dbQueue[n - 1].Version)} ELSE {}
       ELSE AllEdges(tasks') = AllEdges(tasks)

\* C11: when every processing item has its merge task, a successful dequeue
\* of item N leaves the other items in their order, makes the merge task of a
\* processing successor depend on the merge task of the item before N (on no
\* merge task if N was the head) and no longer on N's, and changes no edge if
\* the successor is unprocessed; after any sequence of steps every processing
\* item's merge task depends exactly on the merge task of the item before it
ChainIntegrity ==
    [][/\ \A id \in DOMAIN tasks :
             DequeueStep(id) /\ lastOp'.err = "" /\ AllMergeTasksExist(tasks, dbQueue)
             => Relinked(FindItem(dbQueue, tasks[id].Version) + 1)
       /\ AllMergeTasksExist(tasks', dbQueue') => ChainIntact(tasks', dbQueue')]_vars

\* the item between two processing items was dequeued and the third merge task
\* now depends on the first
ChainRelinkedWitness ==
    /\ lastOp.op = "DequeueAndRestartForTask"
    /\ lastOp.err = ""
    /\ lastOp.arg = "v2"
    /\ Len(dbQueue) = 2
    /\ dbQueue[2].Version = "v3"
    /\ {"M1", "M3"} \subseteq DOMAIN tasks
    /\ MergeDeps(tasks, "M3") = {"M1"}

\* the versions of the processing items after the item of version in q
RECURSIVE laterVersions(_, _, _, _)
laterVersions(q, i, version, foundItem) ==
    IF i > Len(q) \/ q[IF i > Len(q) THEN 1 ELSE i].Version = "" THEN <<>>
    ELSE IF q[i].Version = version THEN laterVersions(q, i + 1, version, TRUE)
    ELSE IF foundItem THEN <<q[i].Version>> \o laterVersions(q, i + 1, version, foundItem)
    ELSE laterVersions(q, i + 1, version, foundItem)

Effects(log, kind) == SelectSeq(log, LAMBDA e : e[1] = kind)

\* the rank of an effect in the order restart, remove, prevent, cancel, report
Rank(e) ==
    CASE e[1] = "restart" -> 1
      [] e[1] = "remove" -> 2
      [] e[1] = "prevent" -> 3
      [] OTHER -> 4

NeighbourMergeTaskMissing(n) ==
    \E i \in {n - 1, n + 1} \cap (1..Len(dbQueue)) :
        /\ n >= 1
        /\ dbQueue[i].Version # ""
        /\ FindMergeTaskForVersion(tasks, dbQueue[i].Version) = ""

\* C19: a DequeueAndRestartForTask that meets a missing document (the patch
\* of the version, or the merge task of a neighbouring item) returns an error,
\* and a DequeueAndRestartForTask that returns an error has left every stored
\* document and the queue as they were
NotFoundChangesNothing ==
    [][\A id \in DOMAIN tasks :
          /\ DequeueStep(id)
             /\ \/ patches[tasks[id].Version] = ""
                \/ NeighbourMergeTaskMissing(FindItem(dbQueue, tasks[id].Version) + 1)
             => lastOp'.err # ""
          /\ DequeueStep(id) /\ lastOp'.err # ""
             => /\ tasks' = tasks
                /\ builds' = builds
                /\ versions' = versions
                /\ patches' = patches
                /\ dbQueue' = dbQueue]_vars

\* ---------------------------------------------------------------------------
\* Activation and deactivation.  Three kinds of initial documents: a chain of
\* deactivated tasks A <- B <- C of which C may override its dependencies, a
\* single-host task group of two, and a commit queue of two processing items, of
\* which the first may have lost its patch.  The tasks were activated by a user
\* or by the system.
\* ---------------------------------------------------------------------------

ActivationCallers == {"user", APIServerTaskActivator}

ActivatedBy(ts, by, activated) ==
    [id \in DOMAIN ts |-> [ts[id] EXCEPT !.ActivatedBy = by, !.Activated = @ /\ activated]]

ChainToActivate(override) ==
    [Chain(RepotrackerVersionRequester, "b2", "b2", TaskSucceeded, FALSE)
        EXCEPT !["C"].OverrideDependencies = override]

InitActive ==
    /\ \/ /\ \E override \in BOOLEAN : tasks = ActivatedBy(ChainToActivate(override), "", FALSE)
          /\ dbQueue = <<>>
       \/ /\ \E by \in ActivationCallers :
                tasks = ActivatedBy([id \in {"G1", "G2"} |-> GroupTasks(TRUE)[id]], by, TRUE)
          /\ dbQueue = <<>>
       \/ /\ \E by \in ActivationCallers :
                tasks = ActivatedBy([id \in {"M1", "M2"} |->
                                        MergeTask(IF id = "M1" THEN 1 ELSE 2, TRUE)], by, TRUE)
          /\ dbQueue = [i \in 1..2 |->
                          [Issue |-> ItemVersions[i], PatchId |-> ItemVersions[i],
                           Version |-> ItemVersions[i]]]
    /\ builds = [b \in {tasks[t].BuildId : t \in DOMAIN tasks} |->
                   [NewBuild(b) EXCEPT
                       !.Version = tasks[CHOOSE t \in DOMAIN tasks : tasks[t].BuildId = b].Version]]
    /\ versions = [v \in {tasks[t].Version : t \in DOMAIN tasks} |->
                     [Id |-> v, Status |-> VersionCreated, Aborted |-> FALSE,
                      Requester |-> RepotrackerVersionRequester]]
    /\ \E missing \in {{}, {"v1"}} :
          patches = [v \in {tasks[t].Version : t \in DOMAIN tasks} |->
                        IF /\ \E t \in DOMAIN tasks : tasks[t].Requester = MergeTestRequester
                           /\ v \notin missing
                        THEN PatchCreated ELSE ""]
    /\ events = [t \in DOMAIN tasks |-> 0]
    /\ agent = [t \in DOMAIN tasks |-> NoAgent]
    /\ lastOp = [op |-> "Init", task |-> "", arg |-> "", err |-> "", blocked |-> {}]
    /\ queue = <<>>
    /\ cqRet = [op |-> "", issue |-> "", position |-> 0, err |-> ""]
    /\ AggIdle /\ ConcIdle

\* SetActiveStateById
SetActive(id, caller, active) ==
    /\ TotalExecutions(tasks) < MaxResets
    /\ LET r == SetActiveState(CurrentDB, caller, active, tasks[id])
       IN  /\ Store(r)
           /\ dbQueue' = r.dbq
           /\ lastOp' = Op("SetActiveState", id, <<caller, active>>, r.err)
                         @@ [recomputed |-> r.recomputed, log |-> r.log]
    /\ UNCHANGED <<agent, queue, cqRet, aggVars, concVars>>

\* UpdateVersionAndPatchStatusForBuilds for the builds of a version
Recompute(v) ==
    /\ LET r == UpdateVersionAndPatchStatusForBuilds(
                    CurrentDB, SelectSeq(BuildOrder, LAMBDA b : b \in DOMAIN builds
                                                              /\ builds[b].Version = v))
       IN  /\ Store(r)
           /\ lastOp' = Op("UpdateVersionAndPatchStatusForBuilds", "", v, r.err)
                         @@ [recomputed |-> r.recomputed]
    /\ UNCHANGED <<agent, cqVars, aggVars, concVars>>

NextActive ==
    \/ \E v \in DOMAIN versions : Recompute(v)
    \/ \E id \in DOMAIN tasks : Dispatch(id)
    \/ \E id \in DOMAIN tasks, status \in {TaskSucceeded, TaskFailed} : EndMerge(id, status)
    \/ \E id \in DOMAIN tasks, caller \in ActivationCallers, active \in BOOLEAN :
          SetActive(id, caller, active)

SpecActive == InitActive /\ [][NextActive]_vars

ActiveStep(id, active) ==
    /\ lastOp'.op = "SetActiveState"
    /\ lastOp'.task = id
    /\ lastOp'.arg[2] = active

\* C21: a deactivation request changes the activated flag of its task only if
\* the caller is not a system activator or the task was activated by a system
\* activator; a system activator deactivating a task activated by a user
\* leaves every task (the later members of its group included) and the commit
\* queue unchanged
DeactivationGuard ==
    [][\A id \in DOMAIN tasks :
          ActiveStep(id, FALSE)
          => /\ tasks'[id].Activated # tasks[id].Activated
                => \/ ~IsSystemActivator(lastOp'.arg[1])
                   \/ IsSystemActivator(tasks[id].ActivatedBy)
             /\ IsSystemActivator(lastOp'.arg[1]) /\ ~IsSystemActivator(tasks[id].ActivatedBy)
                => tasks' = tasks /\ dbQueue' = dbQueue]_vars

\* the system asked to deactivate a member of a group, or a merge test, that a
\* user activated, and it is still activated
DeactivationRefusedWitness ==
    /\ lastOp.op = "SetActiveState"
    /\ lastOp.arg = <<APIServerTaskActivator, FALSE>>
    /\ tasks[lastOp.task].ActivatedBy = "user"
    /\ tasks[lastOp.task].Activated
    /\ \/ /\ IsPartOfSingleHostTaskGroup(tasks[lastOp.task])
          /\ tasks[lastOp.task].TaskGroupOrder = 1
          /\ \A m \in DOMAIN tasks : tasks[m].Activated
       \/ /\ tasks[lastOp.task].Requester = MergeTestRequester
          /\ FindItem(dbQueue, tasks[lastOp.task].Version) >= 0

\* the tasks that id depends on, directly or through other tasks
DependenciesUp(id) == dependenciesUp(tasks, {id}, {})

\* C22: after a successful activation of a task that does not override its
\* dependencies the task and every task it depends on, directly or through
\* other tasks, is activated (the finished members of its own single-host
\* group among them have been reset); after a successful activation of a task
\* that overrides its dependencies the task is activated and the activated
\* flag of no other task has changed
ActivationClosure ==
    [][\A id \in DOMAIN tasks :
          ActiveStep(id, TRUE) /\ lastOp'.err = ""
          => IF ~tasks[id].OverrideDependencies
             THEN /\ \A x \in {id} \cup DependenciesUp(id) : tasks'[x].Activated
                  /\ \A x \in DependenciesUp(id) :
                        resetInsteadOfActivate(tasks, tasks[id], x) => ResetStep(x)
             ELSE /\ tasks'[id].Activated
                  /\ \A x \in DOMAIN tasks \ {id} :
                        tasks'[x].Activated = tasks[x].Activated]_vars

\* the activation of C has activated A, which C depends on through B
ActivationClosureWitness ==
    /\ lastOp.op = "SetActiveState"
    /\ lastOp.task = "C"
    /\ lastOp.arg = <<"user", TRUE>>
    /\ lastOp.err = ""
    /\ "A" \in DOMAIN tasks
    /\ ~tasks["C"].OverrideDependencies
    /\ \A x \in {"A", "B", "C"} : tasks[x].Activated /\ tasks[x].ActivatedBy = "user"
    /\ tasks["A"].Status = TaskUndispatched


-----------------------------------------------------------------------------
(* Stepback: the runs R1..R4 of one task at the revision orders 1..4, and    *)
(* the single-host task group G1, G2, G3 at revision order 3 with its runs   *)
(* P1, P2, P3 at revision order 2 and S1, S2, S3 at revision order 1.  The   *)
(* stepback policy of project, variant and task is the field Stepback of the *)
(* task, and the deactivatePrevious argument of MarkEnd its field            *)
(* DeactivatePrevious.  No task was generated by another one.                *)

RunIds == <<"R1", "R2", "R3", "R4">>
RunBuilds == <<"r1", "r2", "r3", "r4">>
RunVersions == <<"v1", "v2", "v3", "v4">>

Inactive == [Status |-> TaskUndispatched, Activated |-> FALSE, Priority |-> 0]
Disabled == [Status |-> TaskUndispatched, Activated |-> FALSE, Priority |-> -1]
Waiting == [Status |-> TaskUndispatched, Activated |-> TRUE, Priority |-> 0]
Succeeded == [Status |-> TaskSucceeded, Activated |-> TRUE, Priority |-> 0]
Failed == [Status |-> TaskFailed, Activated |-> TRUE, Priority |-> 0]

Run(i, requester, state, stepback) ==
    [NewTask(RunIds[i], RunBuilds[i], requester, <<>>, FALSE)
        EXCEPT !.Version = RunVersions[i], !.BuildVariant = "bv",
               !.DisplayName = "compile", !.RevisionOrderNumber = i,
               !.Status = state.Status, !.Activated = state.Activated,
               !.Priority = state.Priority, !.FinishTime = IF IsFinishedTaskStatus(state.Status) THEN 1 ELSE 0,
               !.Stepback = stepback, !.DeactivatePrevious = TRUE]

Runs(present, requester, s1, s2, s3, stepback) ==
    [id \in present |->
        CASE id = "R1" -> Run(1, requester, s1, stepback)
          [] id = "R2" -> Run(2, requester, s2, stepback)
          [] id = "R3" -> Run(3, requester, s3, stepback)
          [] id = "R4" -> Run(4, requester, Waiting, stepback)]

\* the member at position order of the group at revision order revision
StepbackMember(prefix, order, revision, requester, state) ==
    [NewTask(prefix[order], RunBuilds[revision], requester,
             IF order = 2 THEN <<Dep(prefix[1], TaskSucceeded)>> ELSE <<>>, FALSE)
        EXCEPT !.Version = RunVersions[revision], !.BuildVariant = "bv",
               !.DisplayName = <<"one", "two", "three">>[order],
               !.RevisionOrderNumber = revision,
               !.TaskGroup = GroupName, !.TaskGroupMaxHosts = 1, !.TaskGroupOrder = order,
               !.Status = state.Status, !.Activated = state.Activated,
               !.Priority = state.Priority, !.FinishTime = IF IsFinishedTaskStatus(state.Status) THEN 1 ELSE 0,
               !.Stepback = TRUE, !.DeactivatePrevious = FALSE]

StepbackGroups(requester) ==
    [id \in {"G1", "G2", "G3", "P1", "P2", "P3", "S1", "S2", "S3"} |->
        CASE id \in {"G1", "G2", "G3"} ->
               StepbackMember(<<"G1", "G2", "G3">>,
                              CHOOSE k \in 1..3 : <<"G1", "G2", "G3">>[k] = id,
                              3, requester, Waiting)
          [] id \in {"P1", "P2", "P3"} ->
               StepbackMember(<<"P1", "P2", "P3">>,
                              CHOOSE k \in 1..3 : <<"P1", "P2", "P3">>[k] = id,
                              2, requester, Inactive)
          [] id \in {"S1", "S2", "S3"} ->
               StepbackMember(<<"S1", "S2", "S3">>,
                              CHOOSE k \in 1..3 : <<"S1", "S2", "S3">>[k] = id,
                              1, requester, Succeeded)]

\* the status of a build or version whose tasks all ran to the end, or did
\* not run at all
StatusOfRuns(ts, ids, created, failed, succeeded) ==
    IF \A t \in ids : ts[t].Status = TaskSucceeded THEN succeeded
    ELSE IF \A t \in ids : IsFinished(ts[t]) THEN failed
    ELSE created

InitStepback ==
    /\ \/ \E requester \in {RepotrackerVersionRequester, PatchVersionRequester},
             stepback \in BOOLEAN :
             \/ tasks = Runs({"R4"}, requester, Inactive, Inactive, Inactive, stepback)
             \/ \E s1 \in {Succeeded, Inactive}, s2 \in {Inactive, Succeeded},
                   s3 \in {Inactive, Disabled, Waiting, Succeeded, Failed} :
                   tasks = Runs({"R1", "R2", "R3", "R4"}, requester, s1, s2, s3, stepback)
       \/ \E requester \in {RepotrackerVersionRequester, PatchVersionRequester} :
             tasks = StepbackGroups(requester)
    /\ builds = [b \in {tasks[t].BuildId : t \in DOMAIN tasks} |->
                   [NewBuild(b) EXCEPT
                       !.Version = tasks[CHOOSE t \in DOMAIN tasks : tasks[t].BuildId = b].Version,
                       !.Status = StatusOfRuns(tasks, {t \in DOMAIN tasks : tasks[t].BuildId = b},
                                               BuildCreated, BuildFailed, BuildSucceeded)]]
    /\ versions = [v \in {tasks[t].Version : t \in DOMAIN tasks} |->
                     [Id |-> v,
                      Status |-> StatusOfRuns(tasks, {t \in DOMAIN tasks : tasks[t].Version = v},
                                              VersionCreated, VersionFailed, VersionSucceeded),
                      Aborted |-> FALSE,
                      Requester |-> tasks[CHOOSE t \in DOMAIN tasks : tasks[t].Version = v].Requester]]
    /\ patches = [v \in DOMAIN versions |->
                    IF IsPatchRequester(versions[v].Requester)
                    THEN VersionStatusToPatchStatus(versions[v].Status) ELSE ""]
    /\ events = [t \in DOMAIN tasks |-> 0]
    /\ agent = [t \in DOMAIN tasks |-> NoAgent]
    /\ lastOp = [op |-> "Init", task |-> "", arg |-> "", err |-> "", blocked |-> {},
                 log |-> <<>>]
    /\ QueueIdle /\ AggIdle /\ ConcIdle

\* the agent reports the end of a dispatched task; the record of the step
\* holds the tasks MarkEnd stepped back, in order
EndRun(id, status) ==
    /\ tasks[id].Status = TaskDispatched
    /\ LET r == MarkEnd(CurrentDB, tasks[id], tasks[id].FinishTime + 1,
                        [Status |-> status, Description |-> ""])
       IN  /\ Store(r)
           /\ lastOp' = Op("MarkEnd", id, status, r.err) @@ [log |-> r.log]
    /\ UNCHANGED <<agent, cqVars, aggVars, concVars>>

\* TryResetTask by the monitor, of a running task whose host is gone
ResetRun(id) ==
    /\ tasks[id].Status = TaskDispatched
    /\ TotalExecutions(tasks) < MaxResets
    /\ LET r == TryResetTask(CurrentDB, id, "", MonitorPackage,
                             [Status |-> TaskFailed, Description |-> "stranded"])
       IN  /\ Store(r)
           /\ lastOp' = Op("TryResetTask", id, "", r.err) @@ [log |-> r.log]
    /\ UNCHANGED <<agent, cqVars, aggVars, concVars>>

NextStepback ==
    \/ \E id \in DOMAIN tasks : Dispatch(id)
    \/ \E id \in DOMAIN tasks, status \in {TaskSucceeded, TaskFailed} : EndRun(id, status)
    \/ \E id \in DOMAIN tasks : ResetRun(id)

SpecStepback == InitStepback /\ [][NextStepback]_vars

-----------------------------------------------------------------------------
(* Properties of stepback *)

\* MarkEnd of id has returned without an error
MarkEndReturned(id) ==
    /\ lastOp'.op = "MarkEnd"
    /\ lastOp'.task = id
    /\ lastOp'.err = ""

\* the tasks the call stepped back, in order
SteppedBack == [i \in DOMAIN lastOp'.log |-> lastOp'.log[i][2]]

\* MarkEnd of id has stored the status failed for a task that was not aborted
\* and has stepback switched on
FailedWithStepback(id) ==
    /\ MarkEndReturned(id)
    /\ lastOp'.arg = TaskFailed
    /\ ~tasks[id].Aborted
    /\ tasks[id].Stepback

EarlierRuns(id) ==
    {x \in DOMAIN tasks : /\ SameTask(tasks[x], tasks[id])
                          /\ tasks[x].Requester = tasks[id].Requester
                          /\ tasks[x].RevisionOrderNumber < tasks[id].RevisionOrderNumber}

\* x is the run before id
IsPreviousRun(x, id) ==
    /\ x \in EarlierRuns(id)
    /\ \A y \in EarlierRuns(id) : tasks[y].RevisionOrderNumber <= tasks[x].RevisionOrderNumber

SucceededBefore(id) ==
    \E x \in DOMAIN tasks : /\ SameTask(tasks[x], tasks[id])
                             /\ tasks[x].RevisionOrderNumber < tasks[id].RevisionOrderNumber
                             /\ tasks[x].Status = TaskSucceeded

ActivatedByStepback(x) ==
    /\ ~tasks[x].Activated
    /\ tasks'[x].Activated
    /\ tasks'[x].ActivatedBy = StepbackTaskActivator

StepbackBoundary ==
    [][\A id \in DOMAIN tasks :
          FailedWithStepback(id) /\ ~IsPatchRequester(tasks[id].Requester)
          => \A i \in DOMAIN lastOp'.log :
                \A x \in EarlierRuns(SteppedBack[i]) :
                   tasks'[x] # tasks[x] => IsPreviousRun(x, SteppedBack[i])]_vars

\* of the runs at 1, 2, 3 and 4 the one at 2 is unfinished and not activated:
\* the stepback from 4 has activated the run at 3 and left the one at 2
StepbackBoundaryWitness ==
    /\ lastOp.op = "MarkEnd"
    /\ lastOp.task = "R4"
    /\ lastOp.log = << <<"stepback", "R4">> >>
    /\ "R3" \in DOMAIN tasks
    /\ tasks["R3"].ActivatedBy = StepbackTaskActivator
    /\ tasks["R2"] = Run(2, tasks["R4"].Requester, Inactive, TRUE)

\* the members of the group of id up to id, in the order of the group
MembersUpTo(id) ==
    SelectSeq(FindTaskGroupFromBuild(tasks, tasks[id].BuildId, tasks[id].TaskGroup),
              LAMBDA m : tasks[m].TaskGroupOrder <= tasks[id].TaskGroupOrder)

\* C26: when a member of a single-host task group fails with stepback on, the
\* stepback is applied to the members from the first one to the failing one,
\* in the order of the group, and to no later member: no run of a later
\* member changes
GroupStepbackInOrder ==
    [][\A id \in DOMAIN tasks :
          /\ FailedWithStepback(id)
          /\ ~IsPatchRequester(tasks[id].Requester)
          /\ IsPartOfSingleHostTaskGroup(tasks[id])
          => /\ SteppedBack = MembersUpTo(id)
             /\ \A m \in Members(id) :
                   tasks[m].TaskGroupOrder > tasks[id].TaskGroupOrder
                   => \A x \in EarlierRuns(m) : tasks'[x] = tasks[x]
             /\ \A m \in Members(id), x \in DOMAIN tasks :
                   /\ tasks[m].TaskGroupOrder <= tasks[id].TaskGroupOrder
                   /\ IsPreviousRun(x, m)
                   /\ ~tasks[x].Activated
                   => ActivatedByStepback(x)]_vars

\* G2 has failed after G1 succeeded: the runs before G1 and G2 are activated,
\* the one before G3 is not
GroupStepbackWitness ==
    /\ lastOp.op = "MarkEnd"
    /\ lastOp.task = "G2"
    /\ lastOp.log = << <<"stepback", "G1">>, <<"stepback", "G2">> >>
    /\ tasks["G1"].Status = TaskSucceeded
    /\ tasks["P1"].ActivatedBy = StepbackTaskActivator
    /\ tasks["P2"].ActivatedBy = StepbackTaskActivator
    /\ ~tasks["P3"].Activated

-----------------------------------------------------------------------------
(* Properties of the version and patch status *)

\* the stored builds of a version, with every field
PersistedBuilds(bs, versionId) ==
    LET ids == SelectSeq(BuildOrder, LAMBDA id : id \in DOMAIN bs /\ bs[id].Version = versionId)
    IN  [i \in 1..Len(ids) |-> bs[ids[i]]]

\* a handler other than MarkStart has changed a build of the version, and so
\* has gone on to updateVersionStatus
VersionRecomputed(v) ==
    /\ lastOp'.op # "MarkStart"
    /\ lastOp'.err = ""
    /\ \E b \in DOMAIN builds : builds[b].Version = v /\ builds'[b] # builds[b]

\* C27: the version status that updateVersionStatus leaves is created if every
\* build is created, else started if some build is activated, unfinished and
\* not flagged allTasksBlocked in its stored document, else failed if some
\* build failed or is aborted, else succeeded
VersionStatusFromPersistedBuilds ==
    [][\A v \in DOMAIN versions :
          VersionRecomputed(v)
          => versions'[v].Status = getVersionStatus(PersistedBuilds(builds', v))]_vars

\* C28: whenever no handler is at work, the stored status of the patch of a
\* patch version is the status that VersionStatusToPatchStatus gives for the
\* stored status of the version
PatchStatusFollowsVersion ==
    (\A p \in Procs : pc[p] = "idle")
    => \A v \in DOMAIN versions :
          IsPatchRequester(versions[v].Requester)
          => patches[v] = VersionStatusToPatchStatus(versions[v].Status)

\* SetActiveState or UpdateVersionAndPatchStatusForBuilds has returned
StatusUpdateStep ==
    /\ lastOp'.op \in {"SetActiveState", "UpdateVersionAndPatchStatusForBuilds"}
    /\ lastOp'.err = ""

\* C29 as stated: an update that leaves the status of every build as it was
\* stored recomputes no version and writes no version and no patch
ShortCircuitOnStatus ==
    [][StatusUpdateStep /\ (\A b \in DOMAIN builds : builds'[b].Status = builds[b].Status)
       => /\ lastOp'.recomputed = {}
          /\ versions' = versions
          /\ patches' = patches]_vars

\* C29: an update that finds the derived status and the derived allTasksBlocked
\* flag of every build equal to the stored ones recomputes no version and
\* writes no version and no patch
ShortCircuitOnStatusAndFlag ==
    [][StatusUpdateStep /\ builds' = builds
       => /\ lastOp'.recomputed = {}
          /\ versions' = versions
          /\ patches' = patches]_vars

\* a user has activated A, which left the builds as they were, and the call
\* has recomputed no version
ShortCircuitWitness ==
    /\ lastOp.op = "SetActiveState"
    /\ lastOp.task = "A"
    /\ lastOp.arg = <<"user", TRUE>>
    /\ lastOp.err = ""
    /\ lastOp.recomputed = {}
    /\ tasks["A"].ActivatedBy = "user"
    /\ tasks["A"].Status = TaskUndispatched
    /\ \A b \in DOMAIN builds : builds[b] = [NewBuild(b) EXCEPT !.Version = builds[b].Version]

\* the step takes the finished build b back to created or started
Reopened(b) ==
    /\ IsFinishedBuildStatus(builds[b].Status)
    /\ builds'[b].Status \in {BuildCreated, BuildStarted}

TasksIn(b) == {t \in DOMAIN tasks : tasks[t].BuildId = b}

\* C30 as stated: a finished build goes back to created or started only when
\* one of its tasks is reset
BuildReopenedOnlyByReset ==
    [][\A b \in DOMAIN builds :
          Reopened(b) => \E t \in TasksIn(b) : tasks'[t].Execution > tasks[t].Execution]_vars

\* the stored status of b is not the one getBuildStatus derives from its tasks
OutOfDate(b) == builds[b].Status # getBuildStatus(TasksOfBuild(tasks, b)).status

\* C30: a step takes a finished build back to created or started only if it
\* resets one of its tasks, or activates a deactivated unfinished task of the
\* build, or recomputes a build whose stored status was out of date;
\* deactivations, the end of tasks and repeated recomputes leave a finished
\* build with a current status finished
BuildReopenedOnlyByResetOrActivation ==
    [][\A b \in DOMAIN builds :
          Reopened(b)
          => \/ OutOfDate(b)
             \/ \E t \in TasksIn(b) :
                   \/ tasks'[t].Execution > tasks[t].Execution
                   \/ /\ ~IsFinished(tasks[t])
                      /\ ~tasks[t].Activated
                      /\ tasks'[t].Activated]_vars

\* b2 had succeeded with B while C was deactivated; the activation of C has
\* taken it back to started without a reset
BuildReopenedWitness ==
    /\ lastOp.op = "SetActiveState"
    /\ lastOp.task = "C"
    /\ lastOp.arg[2]
    /\ builds["b2"].Status = BuildStarted
    /\ tasks["B"].Status = TaskSucceeded
    /\ tasks["C"].Activated /\ tasks["C"].Status = TaskUndispatched
    /\ \A t \in DOMAIN tasks : tasks[t].Execution = 0

-----------------------------------------------------------------------------
(* Properties of the commit queue under deactivation and dequeue *)

\* SetActiveState(caller, false, id) has passed the guard on the caller and
\* the activator and has deactivated the merge test id
MergeTestDeactivated(id) ==
    /\ ActiveStep(id, FALSE)
    /\ tasks[id].Requester = MergeTestRequester
    /\ ~IsSystemActivator(lastOp'.arg[1]) \/ IsSystemActivator(tasks[id].ActivatedBy)
    /\ ~tasks'[id].Activated

\* the versions of the processing items of q that come after the item of version
VersionsAfter(q, version) ==
    {q[i].Version : i \in {k \in 1..Len(q) :
                             /\ q[k].Version # ""
                             /\ FindItem(q, version) >= 0
                             /\ k > FindItem(q, version) + 1}}

Restarted(log) == {log[i][2] : i \in {k \in 1..Len(log) : log[k][1] = "restart"}}

\* C31: when SetActiveState(caller, false, t) deactivates a merge test t, the
\* item of the version of t is not in the stored queue on return and every
\* processing item that came after it was restarted; no call leaves t
\* deactivated with its item in the queue
DeactivationDequeues ==
    [][\A id \in DOMAIN tasks :
          MergeTestDeactivated(id)
          => /\ FindItem(dbQueue', tasks[id].Version) < 0
             /\ VersionsAfter(dbQueue, tasks[id].Version) \subseteq Restarted(lastOp'.log)]_vars

\* ---------------------------------------------------------------------------
\* Restart of the items after a version.  A queue of three items of which any
\* may be processing: UpdateVersion gives a version to any queued item, so the
\* processing items need not come first.  Each processing item has its merge
\* task, which depends on the merge task of the item before it when that item
\* is processing.
\* ---------------------------------------------------------------------------

ProcessingItems == SUBSET (1..3)

InitRestart ==
    /\ \E processing \in ProcessingItems :
          /\ tasks = [id \in {MergeTasks[i] : i \in processing} |->
                         LET i == CHOOSE k \in 1..3 : MergeTasks[k] = id
                         IN  MergeTask(i, i > 1 /\ (i - 1) \in processing)]
          /\ dbQueue = [i \in 1..3 |->
                          [Issue |-> ItemVersions[i], PatchId |-> ItemVersions[i],
                           Version |-> IF i \in processing THEN ItemVersions[i] ELSE ""]]
    /\ builds = [b \in {tasks[t].BuildId : t \in DOMAIN tasks} |->
                   [NewBuild(b) EXCEPT
                       !.Version = tasks[CHOOSE t \in DOMAIN tasks : tasks[t].BuildId = b].Version]]
    /\ versions = [v \in {tasks[t].Version : t \in DOMAIN tasks} |->
                     [Id |-> v, Status |-> VersionCreated, Aborted |-> FALSE,
                      Requester |-> MergeTestRequester]]
    /\ patches = [v \in {ItemVersions[i] : i \in 1..3} |-> PatchCreated]
    /\ events = [t \in DOMAIN tasks |-> 0]
    /\ agent = [t \in DOMAIN tasks |-> NoAgent]
    /\ lastOp = [op |-> "Init", task |-> "", arg |-> "", err |-> "", blocked |-> {},
                 log |-> <<>>]
    /\ queue = <<>>
    /\ cqRet = [op |-> "", issue |-> "", position |-> 0, err |-> ""]
    /\ AggIdle /\ ConcIdle

\* the agent reports the end of a dispatched merge task
EndItem(id, status) ==
    /\ tasks[id].Status = TaskDispatched
    /\ LET r == MarkEnd(CurrentDB, tasks[id], tasks[id].FinishTime + 1,
                        [Status |-> status, Description |-> ""])
       IN  /\ Store(r)
           /\ lastOp' = Op("MarkEnd", id, status, r.err) @@ [log |-> r.log]
    /\ UNCHANGED <<agent, cqVars, aggVars, concVars>>

\* RestartItemsAfterVersion with the queue as it is stored
RestartAfter(version) ==
    /\ TotalExecutions(tasks) < MaxRestarts
    /\ LET r == RestartItemsAfterVersion(DQ(CurrentDB, dbQueue), dbQueue, version, "user")
       IN  /\ Store(r)
           /\ lastOp' = Op("RestartItemsAfterVersion", "", version, r.err)
                           @@ [log |-> r.log]
    /\ UNCHANGED <<agent, cqVars, aggVars, concVars>>

NextRestart ==
    \/ \E id \in DOMAIN tasks : Dispatch(id)
    \/ \E id \in DOMAIN tasks, status \in {TaskSucceeded, TaskFailed} : EndItem(id, status)
    \/ \E i \in 1..3 : RestartAfter(ItemVersions[i])

SpecRestart == InitRestart /\ [][NextRestart]_vars

RestartStep(version) ==
    lastOp'.op = "RestartItemsAfterVersion" /\ lastOp'.arg = version

\* the position of the first item of q with the version, 0 when there is none
PositionOfVersion(q, version) ==
    IF \E k \in 1..Len(q) : q[k].Version = version
    THEN CHOOSE k \in 1..Len(q) :
             /\ q[k].Version = version
             /\ \A j \in 1..(k - 1) : q[j].Version # version
    ELSE 0

\* the versions of the processing items of q after the item of the version
ProcessingAfter(q, version) ==
    {q[k].Version : k \in {j \in 1..Len(q) :
                             /\ PositionOfVersion(q, version) > 0
                             /\ j > PositionOfVersion(q, version)
                             /\ q[j].Version # ""}}

\* those of them that no item without a version precedes
LeadingProcessingAfter(q, version) ==
    {q[k].Version : k \in {j \in 1..Len(q) :
                             /\ PositionOfVersion(q, version) > 0
                             /\ j > PositionOfVersion(q, version)
                             /\ \A i \in 1..j : q[i].Version # ""}}

\* the step has restarted the versions of vs and has left every task of
\* another version as it was
RestartedExactly(vs) ==
    /\ Restarted(lastOp'.log) = vs
    /\ \A t \in DOMAIN tasks : tasks[t].Version \notin vs => tasks'[t] = tasks[t]

GroupWithOutsider(override) ==
    [t \in {"A", "G1", "G2", "G3"} |->
        CASE t = "A"  -> [NewTask("A", "b2", RepotrackerVersionRequester, <<>>, FALSE)
                             EXCEPT !.ActivatedBy = "user"]
          [] t = "G1" -> [GroupMember("G1", 1, <<>>, TRUE) EXCEPT !.ActivatedBy = "user"]
          [] t = "G2" -> [GroupMember("G2", 2, <<Dep("G1", TaskSucceeded),
                                                 Dep("A", AllStatuses)>>, TRUE)
                             EXCEPT !.ActivatedBy = "user"]
          [] t = "G3" -> [GroupMember("G3", 3, <<Dep("G2", TaskSucceeded)>>, TRUE)
                             EXCEPT !.ActivatedBy = "user",
                                    !.OverrideDependencies = override]]

InitGroupActivation ==
    /\ \E override \in BOOLEAN : tasks = GroupWithOutsider(override)
    /\ dbQueue = <<>>
    /\ builds = [b \in {"b1", "b2"} |-> NewBuild(b)]
    /\ versions = [v \in {VersionId} |->
                     [Id |-> v, Status |-> VersionCreated, Aborted |-> FALSE,
                      Requester |-> RepotrackerVersionRequester]]
    /\ patches = [v \in {VersionId} |-> ""]
    /\ events = [t \in DOMAIN tasks |-> 0]
    /\ agent = [t \in DOMAIN tasks |-> NoAgent]
    /\ lastOp = [op |-> "Init", task |-> "", arg |-> "", err |-> "", blocked |-> {}]
    /\ queue = <<>>
    /\ cqRet = [op |-> "", issue |-> "", position |-> 0, err |-> ""]
    /\ AggIdle /\ ConcIdle

NextGroupActivation ==
    \/ \E id \in DOMAIN tasks : Dispatch(id)
    \/ \E id \in DOMAIN tasks, status \in {TaskSucceeded, TaskFailed} : EndMerge(id, status)
    \/ \E id \in DOMAIN tasks, active \in BOOLEAN : SetActive(id, "user", active)

SpecGroupActivation == InitGroupActivation /\ [][NextGroupActivation]_vars

\* SetActiveState(caller, true, id) has returned for the member id of a
\* single-host task group
GroupMemberActivated(id) ==
    /\ ActiveStep(id, TRUE)
    /\ lastOp'.err = ""
    /\ IsPartOfSingleHostTaskGroup(tasks[id])

\* the dependencies of id, direct or not, that are finished members of its group
FinishedGroupDependencies(ts, id) ==
    {x \in dependenciesUp(ts, {id}, {}) :
        ts[x].TaskGroup = ts[id].TaskGroup /\ IsFinished(ts[x])}

\* the step has reset x: a new execution that is activated and has not run
ResetToRun(x) ==
    /\ tasks'[x].Execution = tasks[x].Execution + 1
    /\ tasks'[x].Status = TaskUndispatched
    /\ tasks'[x].Activated

\* the step has at most activated x
OnlyActivated(x) ==
    /\ tasks'[x].Execution = tasks[x].Execution
    /\ tasks'[x].Status = tasks[x].Status
    /\ tasks'[x].Activated

\* C33 as stated: the activation of a member of a single-host task group
\* resets each finished dependency in the group and only activates the other
\* dependencies, and leaves no finished member that the task depends on
GroupActivationResetsFinished ==
    [][\A id \in DOMAIN tasks :
          GroupMemberActivated(id)
          => /\ \A x \in FinishedGroupDependencies(tasks, id) : ResetToRun(x)
             /\ \A x \in DependenciesUp(id) \ FinishedGroupDependencies(tasks, id) :
                   OnlyActivated(x)
             /\ FinishedGroupDependencies(tasks', id) = {}]_vars

\* C33: the activation of a member of a single-host task group that does not
\* override its dependencies resets each finished dependency in the group and
\* only activates the other dependencies, and leaves no finished member that
\* the task depends on; the activation of a member that overrides its
\* dependencies leaves every dependency as it was
GroupActivationResetsUnlessOverride ==
    [][\A id \in DOMAIN tasks :
          GroupMemberActivated(id)
          => IF tasks[id].OverrideDependencies
             THEN \A x \in DependenciesUp(id) : tasks'[x] = tasks[x]
             ELSE /\ \A x \in FinishedGroupDependencies(tasks, id) : ResetToRun(x)
                  /\ \A x \in DependenciesUp(id) \ FinishedGroupDependencies(tasks, id) :
                        OnlyActivated(x)
                  /\ FinishedGroupDependencies(tasks', id) = {}]_vars

\* G1 and A had succeeded and G2 was deactivated: the activation of G2 has
\* reset G1 and has left A finished
GroupActivationWitness ==
    /\ lastOp.op = "SetActiveState"
    /\ lastOp.task = "G2"
    /\ lastOp.arg = <<"user", TRUE>>
    /\ lastOp.err = ""
    /\ tasks["G1"].Execution = 1 /\ tasks["G1"].Status = TaskUndispatched
    /\ tasks["A"].Execution = 0 /\ tasks["A"].Status = TaskSucceeded
    /\ tasks["G2"].Activated

\* ---------------------------------------------------------------------------
\* Reset of a display task.  The display task DT of a patch owns the execution
\* tasks E1 <- E2; E2 needs the success of E1.  The execution tasks are
\* dispatched, finish, and are activated and deactivated by a user, and the
\* reset of DT or of one of its execution tasks is requested.
\* ---------------------------------------------------------------------------

MaxDisplayResets == 1    \* resets of the display task

DisplayTasks ==
    [t \in {"DT", "E1", "E2"} |->
        CASE t = "DT" -> [NewTask("DT", "b1", PatchVersionRequester, <<>>, FALSE)
                             EXCEPT !.DisplayOnly = TRUE, !.ExecutionTasks = <<"E1", "E2">>,
                                    !.ActivatedBy = "user"]
          [] t = "E1" -> [NewTask("E1", "b1", PatchVersionRequester, <<>>, FALSE)
                             EXCEPT !.DisplayTaskId = "DT", !.ActivatedBy = "user"]
          [] t = "E2" -> [NewTask("E2", "b1", PatchVersionRequester,
                                  <<Dep("E1", TaskSucceeded)>>, FALSE)
                             EXCEPT !.DisplayTaskId = "DT", !.ActivatedBy = "user"]]

InitDisplay ==
    /\ tasks = DisplayTasks
    /\ dbQueue = <<>>
    /\ builds = [b \in {"b1"} |-> NewBuild(b)]
    /\ versions = [v \in {VersionId} |->
                     [Id |-> v, Status |-> VersionCreated, Aborted |-> FALSE,
                      Requester |-> PatchVersionRequester]]
    /\ patches = [v \in {VersionId} |-> PatchCreated]
    /\ events = [t \in DOMAIN tasks |-> 0]
    /\ agent = [t \in DOMAIN tasks |-> NoAgent]
    /\ lastOp = [op |-> "Init", task |-> "", arg |-> "", err |-> "", blocked |-> {}]
    /\ queue = <<>>
    /\ cqRet = [op |-> "", issue |-> "", position |-> 0, err |-> ""]
    /\ AggIdle /\ ConcIdle

\* MarkHostTaskDispatched of an execution task
DispatchExec(id) ==
    /\ IsPartOfDisplay(tasks[id])
    /\ Dispatchable(tasks, id)
    /\ StoreOp(UpdateDisplayTaskForTask(MarkHostTaskDispatched(CurrentDB, tasks[id]),
                                        tasks[id]),
               "MarkHostTaskDispatched", id, "")
    /\ UNCHANGED <<agent, cqVars, aggVars, concVars>>

\* the agent reports the end of a dispatched execution task
EndExec(id, status) ==
    /\ IsPartOfDisplay(tasks[id])
    /\ tasks[id].Status = TaskDispatched
    /\ StoreOp(MarkEnd(CurrentDB, tasks[id], tasks[id].FinishTime + 1,
                       [Status |-> status, Description |-> ""]),
               "MarkEnd", id, status)
    /\ UNCHANGED <<agent, cqVars, aggVars, concVars>>

\* ResetTaskOrDisplayTask for the display task or one of its execution tasks
RequestReset(id) ==
    /\ tasks["DT"].Execution < MaxDisplayResets
    /\ StoreOp(ResetTaskOrDisplayTask(CurrentDB, tasks[id], User, MonitorPackage,
                                      tasks[id].Details),
               "ResetTaskOrDisplayTask", id, "")
    /\ UNCHANGED <<agent, cqVars, aggVars, concVars>>

NextDisplay ==
    \/ \E id \in DOMAIN tasks : DispatchExec(id)
    \/ \E id \in DOMAIN tasks, status \in {TaskSucceeded, TaskFailed} : EndExec(id, status)
    \/ \E id \in DOMAIN tasks : RequestReset(id)
    \/ \E id \in {"E1", "E2"}, active \in BOOLEAN : SetActive(id, "user", active)

SpecDisplay == InitDisplay /\ [][NextDisplay]_vars

ExecutionTasksOf(dt) == {tasks[dt].ExecutionTasks[i] : i \in 1..Len(tasks[dt].ExecutionTasks)}

\* the step has reset the display task dt
DisplayTaskReset(dt) == tasks'[dt].Execution > tasks[dt].Execution

\* the reset of dt was asked for: it was marked before the step, or the step
\* is the request
ResetRequested(dt) ==
    tasks[dt].ResetWhenFinished \/ lastOp'.op = "ResetTaskOrDisplayTask"

\* when the step checks the display task, e does not need to run any more: it
\* was finished, blocked or deactivated before the step, or the step is its
\* end, or the step is the failure of a task whose success it needs
NothingLeftToRun(e) ==
    \/ ~StillToRun(tasks[e])
    \/ lastOp'.op = "MarkEnd" /\ lastOp'.task = e
    \/ /\ lastOp'.op = "MarkEnd"
       /\ lastOp'.arg = TaskFailed
       /\ \E i \in 1..Len(tasks[e].DependsOn) :
             /\ tasks[e].DependsOn[i].TaskId = lastOp'.task
             /\ tasks[e].DependsOn[i].Status = TaskSucceeded

\* C34: a step resets a display task only if the reset was requested and no
\* execution task still needs to run, and then it resets the display task and
\* every execution task together
DisplayResetWaits ==
    [][\A dt \in {t \in DOMAIN tasks : tasks[t].DisplayOnly} :
          DisplayTaskReset(dt)
          => /\ ResetRequested(dt)
             /\ \A e \in ExecutionTasksOf(dt) : NothingLeftToRun(e)
             /\ \A x \in {dt} \cup ExecutionTasksOf(dt) :
                   /\ tasks'[x].Execution = tasks[x].Execution + 1
                   /\ tasks'[x].Status = TaskUndispatched
                   /\ ~tasks'[x].ResetWhenFinished]_vars

\* the reset of DT was requested while E1 was running and was put off; the end
\* of E1, which blocks E2, has reset DT with E1 and E2
DisplayResetWitness ==
    /\ lastOp.op = "MarkEnd"
    /\ lastOp.task = "E1"
    /\ lastOp.arg = TaskFailed
    /\ lastOp.err = ""
    /\ \A x \in {"DT", "E1", "E2"} :
          tasks[x].Execution = 1 /\ tasks[x].Status = TaskUndispatched

\* ---------------------------------------------------------------------------
\* Callers of MarkEnd that hold their own copy of the task
\* ---------------------------------------------------------------------------
\* A caller fetches the task document first and hands that copy to MarkEnd
\* later; another caller may finish the task between the two steps.

NoCopy == [Id |-> ""]

InitCopies ==
    /\ \E requester \in {PatchVersionRequester, RepotrackerVersionRequester} :
          /\ tasks = Chain(requester, "b1", "b1", TaskSucceeded, FALSE)
          /\ versions = [v \in {VersionId} |->
                           [Id |-> v, Status |-> VersionCreated, Aborted |-> FALSE,
                            Requester |-> requester]]
          /\ patches = [v \in {VersionId} |->
                          IF requester = PatchVersionRequester THEN PatchCreated ELSE ""]
    /\ builds = [b \in {"b1"} |-> NewBuild(b)]
    /\ events = [t \in {"A", "B", "C"} |-> 0]
    /\ agent = [t \in {"A", "B", "C"} |-> NoAgent]
    /\ lastOp = [op |-> "Init", task |-> "", arg |-> "", err |-> "", blocked |-> {}]
    /\ QueueIdle /\ AggIdle
    /\ pc = [p \in Procs |-> "idle"]
    /\ local = [p \in Procs |-> NoCopy]

\* task.FindOneId by the caller of MarkEnd
FetchTask(p, id) ==
    /\ pc[p] = "idle"
    /\ tasks[id].Status \in {TaskDispatched, TaskStarted}
    /\ local' = [local EXCEPT ![p] = tasks[id]]
    /\ pc' = [pc EXCEPT ![p] = "fetched"]
    /\ UNCHANGED <<tasks, builds, versions, patches, events, agent, lastOp, cqVars, aggVars>>

\* MarkEnd(t, ...) with the copy the caller holds
EndWithCopy(p, status) ==
    LET t == local[p]
        r == MarkEnd(CurrentDB, t, tasks[t.Id].FinishTime + 1,
                     [Status |-> status, Description |-> ""])
    IN  /\ pc[p] = "fetched"
        /\ Store(r)
        /\ lastOp' = Op("MarkEnd", t.Id, status, r.err) @@ [proc |-> p]
        /\ pc' = [pc EXCEPT ![p] = "idle"]
        /\ local' = [local EXCEPT ![p] = NoCopy]
        /\ UNCHANGED <<agent, cqVars, aggVars>>

NextCopies ==
    \/ \E id \in {"A", "B", "C"} : Dispatch(id)
    \/ \E p \in Procs, id \in {"A", "B", "C"} : FetchTask(p, id)
    \/ \E p \in Procs, status \in {TaskSucceeded, TaskFailed} : EndWithCopy(p, status)

SpecCopies == InitCopies /\ [][NextCopies]_vars

\* the stored task already holds the finish that caller p is about to report
AlreadyFinishedAs(p, status) ==
    /\ tasks[local[p].Id].Execution = local[p].Execution
    /\ IsDoubleFinish(tasks[local[p].Id], [Status |-> status, Description |-> ""])

\* C35: of two callers of MarkEnd for the same execution of a task and the
\* same status, each holding a copy fetched earlier, the one that comes second
\* is a no-op: it writes no status, propagates no blocking, runs no stepback
\* and no aggregation, and logs no event.
SecondEndIsNoOp ==
    [][\A p \in Procs :
          (/\ pc[p] = "fetched" /\ pc'[p] = "idle"
           /\ lastOp'.op = "MarkEnd"
           /\ AlreadyFinishedAs(p, lastOp'.arg))
          => /\ tasks' = tasks
             /\ builds' = builds
             /\ versions' = versions
             /\ patches' = patches
             /\ events' = events]_vars

\* ---------------------------------------------------------------------------
\* The stored version status against the stored builds
\* ---------------------------------------------------------------------------

\* C36: after any sequence of task operations the stored status of every
\* version is getVersionStatus of its stored builds (status, activated,
\* aborted and allTasksBlocked as stored), also after a propagation that was
\* cut short because the derived build status had not changed
VersionNeverStale ==
    \A v \in DOMAIN versions :
        versions[v].Status = getVersionStatus(PersistedBuilds(builds, v))

\* ---------------------------------------------------------------------------
\* Uniqueness of the issues of the commit queue
\* ---------------------------------------------------------------------------

UniqueIssues(q) == \A i, j \in 1..Len(q) : q[i].Issue = q[j].Issue => i = j

\* the index of the item with the issue
IssueIndex(q, issue) == CHOOSE i \in 1..Len(q) : q[i].Issue = issue

\* C37 as stated: no two items of the queue have the same issue; Remove(issue)
\* removes the item with that issue and nothing else, the other items keeping
\* their order; Remove of an issue no item has returns nil without error and
\* leaves the queue as it is
IssuesUniqueAndRemoveByIssue ==
    /\ UniqueIssues(queue)
    /\ [][/\ UniqueIssues(queue')
          /\ cqRet'.op = "Remove"
             => IF HasIssue(queue, cqRet'.issue)
                THEN /\ queue' = RemoveAt(queue, IssueIndex(queue, cqRet'.issue) - 1)
                     /\ cqRet'.err = ""
                ELSE /\ queue' = queue
                     /\ cqRet'.position = -1
                     /\ cqRet'.err = ""]_vars

\* C37, amended: no two items of the queue have the same issue; Remove(id)
\* removes the first item whose issue, version or patch id is id, and nothing
\* else, the other items keeping their order, in memory and in the store;
\* Remove of an id that FindItem does not find returns nil without error and
\* leaves the queue as it is
IssuesUniqueAndRemoveByMatch ==
    /\ UniqueIssues(queue)
    /\ [][/\ UniqueIssues(queue')
          /\ cqRet'.op = "Remove"
             => IF Matches(queue, cqRet'.issue) # {}
                THEN /\ queue' = RemoveAt(queue, FirstMatch(queue, cqRet'.issue) - 1)
                     /\ Len(queue') = Len(queue) - 1
                     /\ cqRet'.position = FirstMatch(queue, cqRet'.issue) - 1
                     /\ cqRet'.err = ""
                     /\ dbQueue' = queue'
                ELSE /\ queue' = queue
                     /\ dbQueue' = dbQueue
                     /\ cqRet'.position = -1
                     /\ cqRet'.err = ""]_vars

\* C37 witness: Remove took the second of three items
RemoveMiddleWitness ==
    /\ cqRet.op = "Remove" /\ cqRet.err = "" /\ cqRet.position = 1
    /\ Len(queue) = 2
    /\ UniqueIssues(queue)

\* ---------------------------------------------------------------------------
\* Dequeue with a queue object supplied by the caller
\* ---------------------------------------------------------------------------

\* the caller's slice after Remove ran on a by-value copy of the queue object:
\* append(q.Queue[:itemIndex], q.Queue[itemIndex+1:]...) moves the later items
\* one place down in the array the two slices share, and only the copy's slice
\* gets the shorter length
SliceAfterRemoveOnCopy(q, itemIndex) ==
    [k \in 1..Len(q) |->
        IF k <= itemIndex THEN q[k]
        ELSE IF k < Len(q) THEN q[k + 1]
        ELSE q[k]]

\* cq.Queue of the caller when DequeueAndRestartForTask has returned
callerQueue(r, q, issue) ==
    IF \E i \in 1..Len(r.log) : r.log[i][1] = "remove"
    THEN SliceAfterRemoveOnCopy(q, FindItem(q, issue))
    ELSE q

\* DequeueAndRestartForTask with a queue handle
DequeueAndRestartForTaskWith(d, q, t, caller, isPRMerge) ==
    afterRestart(RestartItemsAfterVersion(d, q, t.Version, caller), q, t, isPRMerge)

\* a caller reads the queue from the store and hands it to
\* DequeueAndRestartForTask
DequeueWithQueue(id, isPRMerge) ==
    /\ TotalExecutions(tasks) < MaxRestarts
    /\ LET q == dbQueue
           r == DequeueAndRestartForTaskWith(DQ(CurrentDB, dbQueue), q, tasks[id],
                                             "user", isPRMerge)
       IN  /\ Store(r)
           /\ dbQueue' = r.dbq
           /\ queue' = callerQueue(r, q, tasks[id].Version)
           /\ lastOp' = Op("DequeueAndRestartForTask", id, tasks[id].Version, r.err)
                           @@ [log |-> r.log]
    /\ UNCHANGED <<agent, cqRet, aggVars, concVars>>

NextCallerQueue ==
    \/ \E id \in DOMAIN tasks : Dispatch(id)
    \/ \E id \in DOMAIN tasks, status \in {TaskSucceeded, TaskFailed} : EndMerge(id, status)
    \/ \E id \in DOMAIN tasks, isPRMerge \in BOOLEAN : DequeueWithQueue(id, isPRMerge)

SpecCallerQueue == InitDequeue /\ [][NextCallerQueue]_vars

\* C38: when DequeueAndRestartForTask has returned without error for a queue
\* object of the caller, the caller's cq.Queue does not hold the failing item,
\* holds every other item once and in the order it had, and equals the stored
\* queue
CallerQueueFollowsStore ==
    [][(lastOp'.op = "DequeueAndRestartForTask" /\ lastOp'.err = "")
       => /\ \A i \in 1..Len(queue') : queue'[i].Version # lastOp'.arg
          /\ queue' = SelectSeq(dbQueue, LAMBDA x : x.Version # lastOp'.arg)
          /\ queue' = dbQueue']_vars

\* ---------------------------------------------------------------------------
\* Queue methods on copies of the queue held by several processes
\* ---------------------------------------------------------------------------
\* Every process works on the copy it read from the store with FindOneId; the
\* store applies each process's update to the stored document.

MaxQueueLen == 3

InitCopiedQueue ==
    /\ GraphIdle /\ AggIdle
    /\ QueueIdle
    /\ pc = <<>>
    /\ local = [p \in Procs |-> <<>>]

\* a queue method of process p on its copy
StoreCopy(p, op, issue, r) ==
    /\ local' = [local EXCEPT ![p] = r.queue]
    /\ dbQueue' = r.db
    /\ cqRet' = [op |-> op, issue |-> issue, position |-> r.position, err |-> r.err]
    /\ UNCHANGED <<graphVars, aggVars, queue, pc>>

\* commitqueue.FindOneId
FetchQueue(p) ==
    /\ local[p] # dbQueue
    /\ local' = [local EXCEPT ![p] = dbQueue]
    /\ cqRet' = [op |-> "FindOneId", issue |-> "", position |-> 0, err |-> ""]
    /\ UNCHANGED <<graphVars, aggVars, queue, dbQueue, pc>>

CopyEnqueue(p, item) ==
    /\ Len(dbQueue) < MaxQueueLen
    /\ StoreCopy(p, "Enqueue", item.Issue, Enqueue(local[p], dbQueue, item))

CopyEnqueueAtFront(p, item) ==
    /\ Len(dbQueue) < MaxQueueLen
    /\ StoreCopy(p, "EnqueueAtFront", item.Issue, EnqueueAtFront(local[p], dbQueue, item))

CopyUpdateVersion(p, item) ==
    StoreCopy(p, "UpdateVersion", item.Issue,
              UpdateVersion(local[p], dbQueue, [item EXCEPT !.Version = VersionOf(item.Issue)]))

NextCopiedQueue ==
    \/ \E p \in Procs : FetchQueue(p)
    \/ \E p \in Procs, item \in EnqueueInputs : CopyEnqueue(p, item)
    \/ \E p \in Procs, item \in EnqueueInputs : CopyEnqueueAtFront(p, item)
    \/ \E p \in Procs, item \in EnqueueInputs : CopyUpdateVersion(p, item)

SpecCopiedQueue == InitCopiedQueue /\ [][NextCopiedQueue]_vars

\* C39: an EnqueueAtFront that runs on a copy of the queue, whatever another
\* process has marked as processing in the store since the copy was read,
\* leaves its item after every item with a version in the stored queue
EnqueueAtFrontAfterProcessing ==
    [][(/\ cqRet'.op = "EnqueueAtFront" /\ cqRet'.err = ""
        /\ PrefixOK(dbQueue)
        /\ ~HasIssue(dbQueue, cqRet'.issue))
       => \A i, j \in 1..Len(dbQueue') :
             (dbQueue'[i].Issue = cqRet'.issue /\ i < j) => ~HasVersion(dbQueue'[j])]_vars

\* ---------------------------------------------------------------------------
\* The steps of one blocking or unblocking propagation
\* ---------------------------------------------------------------------------
\* The propagation with a record of its calls of MarkUnattainableDependency:
\* r.ts is the task collection, r.marks the edges <<dependent, dependency>> in
\* the order they were written.

RECURSIVE UpdateBlockedDependenciesLogged(_, _)
RECURSIVE blockEachLogged(_, _, _, _)
RECURSIVE UpdateUnblockedDependenciesLogged(_, _)
RECURSIVE unblockEachLogged(_, _, _, _)

\* the tasks depending on t whose edge onto it requires a status other than
\* t's, marked or not
FindAllBlockedDependencies(ts, id) ==
    LET okStatusSet == {AllStatuses, ts[id].Status}
    IN  idsWhere(ts, LAMBDA d : \E i \in 1..Len(d.DependsOn) :
                                   /\ d.DependsOn[i].TaskId = id
                                   /\ d.DependsOn[i].Status \notin okStatusSet)

blockEachLogged(r, id, dependentTasks, i) ==
    IF i > Len(dependentTasks) THEN r
    ELSE LET marked == [ts |-> MarkUnattainableDependency(r.ts, dependentTasks[i], id, TRUE),
                        marks |-> Append(r.marks, <<dependentTasks[i], id>>)]
         IN  blockEachLogged(UpdateBlockedDependenciesLogged(marked, dependentTasks[i]),
                             id, dependentTasks, i + 1)

\* a propagation over every dependent that requires another status, whether
\* its edge is marked already or not
UpdateBlockedDependenciesOfAll(r, id) ==
    blockEachLogged(r, id, FindAllBlockedDependencies(r.ts, id), 1)

UpdateBlockedDependenciesLogged(r, id) ==
    blockEachLogged(r, id, FindAllUnmarkedBlockedDependencies(r.ts, id), 1)

unblockEachLogged(r, id, blockedTasks, i) ==
    IF i > Len(blockedTasks) THEN r
    ELSE LET cleared == [ts |-> MarkUnattainableDependency(r.ts, blockedTasks[i], id, FALSE),
                         marks |-> Append(r.marks, <<blockedTasks[i], id>>)]
         IN  unblockEachLogged(UpdateUnblockedDependenciesLogged(cleared, blockedTasks[i]),
                               id, blockedTasks, i + 1)

UpdateUnblockedDependenciesLogged(r, id) ==
    unblockEachLogged(r, id, FindAllMarkedUnattainableDependencies(r.ts, id), 1)

\* the edges of the graph below: C is reached from A through A2 and through B,
\* E through C and directly
KiteEdges ==
    {<<"A2", "A">>, <<"B", "A">>, <<"C", "A2">>, <<"C", "B">>, <<"E", "C">>, <<"E", "A">>}

\* the edges whose required status varies
FreeEdges == {<<"B", "A">>, <<"E", "A">>}

Kite(req) ==
    [t \in {"A", "A2", "B", "C", "E"} |->
        CASE t = "A" -> NewTask("A", "b1", RepotrackerVersionRequester, <<>>, FALSE)
          [] t = "A2" -> NewTask("A2", "b1", RepotrackerVersionRequester,
                                 <<Dep("A", req[<<"A2", "A">>])>>, FALSE)
          [] t = "B" -> NewTask("B", "b1", RepotrackerVersionRequester,
                                <<Dep("A", req[<<"B", "A">>])>>, FALSE)
          [] t = "C" -> NewTask("C", "b1", RepotrackerVersionRequester,
                                <<Dep("A2", req[<<"C", "A2">>]), Dep("B", req[<<"C", "B">>])>>,
                                FALSE)
          [] t = "E" -> NewTask("E", "b1", RepotrackerVersionRequester,
                                <<Dep("C", req[<<"E", "C">>]), Dep("A", req[<<"E", "A">>])>>,
                                FALSE)]

InitPropagation ==
    /\ \E req \in [KiteEdges -> {TaskSucceeded, AllStatuses}] :
          /\ \A e \in KiteEdges \ FreeEdges : req[e] = TaskSucceeded
          /\ tasks = Kite(req)
    /\ builds = <<>>
    /\ versions = <<>>
    /\ patches = <<>>
    /\ events = <<>>
    /\ agent = <<>>
    /\ lastOp = [op |-> "Init", task |-> "", arg |-> "", err |-> "", blocked |-> {}]
    /\ QueueIdle /\ AggIdle /\ ConcIdle

\* MarkEnd: the status write and the blocking propagation
EndAndBlock(id, status) ==
    LET r == UpdateBlockedDependenciesLogged(
                 [ts |-> TaskMarkEnd(tasks, id, 1, [Status |-> status, Description |-> ""]),
                  marks |-> <<>>],
                 id)
    IN  /\ ~IsFinished(tasks[id]) /\ ~Blocked(tasks[id])
        /\ tasks' = MarkDependenciesFinished(r.ts, id, TRUE)
        /\ lastOp' = [op |-> "UpdateBlockedDependencies", task |-> id, arg |-> status,
                      err |-> "", blocked |-> BlockedTasks(tasks), marks |-> r.marks]
        /\ UNCHANGED <<builds, versions, patches, events, agent, cqVars, aggVars, concVars>>

\* MarkOneTaskReset: the reset and the unblocking propagation
ResetAndUnblock(id) ==
    LET r == UpdateUnblockedDependenciesLogged(
                 [ts |-> TaskReset(Archive(tasks, id), id), marks |-> <<>>], id)
    IN  /\ IsFinished(tasks[id])
        /\ TotalExecutions(tasks) < MaxResets
        /\ tasks' = MarkDependenciesFinished(r.ts, id, FALSE)
        /\ lastOp' = [op |-> "UpdateUnblockedDependencies", task |-> id, arg |-> "",
                      err |-> "", blocked |-> BlockedTasks(tasks), marks |-> r.marks]
        /\ UNCHANGED <<builds, versions, patches, events, agent, cqVars, aggVars, concVars>>

NextPropagation ==
    \/ \E id \in DOMAIN tasks, status \in {TaskSucceeded, TaskFailed} : EndAndBlock(id, status)
    \/ \E id \in DOMAIN tasks : ResetAndUnblock(id)

SpecPropagation == InitPropagation /\ [][NextPropagation]_vars

\* the Unattainable flag of the edge of task x onto task dep
EdgeUnattainable(ts, x, dep) ==
    \E i \in 1..Len(ts[x].DependsOn) :
        ts[x].DependsOn[i].TaskId = dep /\ ts[x].DependsOn[i].Unattainable

\* C40: a blocking or unblocking propagation over an acyclic graph ends, and it
\* writes every dependency edge at most once, also the edges of a task that is
\* reached along several paths: the edges it wrote are exactly those whose
\* flag it changed, and the outcome is that of the propagation without the log
PropagationWritesEdgeOnce ==
    [][lastOp'.op \in {"UpdateBlockedDependencies", "UpdateUnblockedDependencies"}
       => LET m == lastOp'.marks
              block == lastOp'.op = "UpdateBlockedDependencies"
          IN  /\ \A i, j \in 1..Len(m) : m[i] = m[j] => i = j
              /\ \A i \in 1..Len(m) : m[i] \in KiteEdges
              /\ \A e \in KiteEdges :
                    (\E i \in 1..Len(m) : m[i] = e)
                    <=> (EdgeUnattainable(tasks, e[1], e[2])
                            # EdgeUnattainable(tasks', e[1], e[2]))
              /\ \A i \in 1..Len(m) : EdgeUnattainable(tasks', m[i][1], m[i][2]) = block
              /\ block =>
                    tasks' = MarkDependenciesFinished(
                                 UpdateBlockedDependencies(
                                     TaskMarkEnd(tasks, lastOp'.task, 1,
                                                 [Status |-> lastOp'.arg, Description |-> ""]),
                                     lastOp'.task),
                                 lastOp'.task, TRUE)
              /\ ~block =>
                    tasks' = MarkOneTaskReset(Archive(tasks, lastOp'.task), lastOp'.task)]_vars

\* C40 witness: the failure of A has blocked C through A2 and through B, and
\* E through C
PropagationDiamondWitness ==
    /\ lastOp.op = "UpdateBlockedDependencies" /\ lastOp.task = "A"
    /\ \A e \in {<<"A2", "A">>, <<"B", "A">>, <<"C", "A2">>, <<"C", "B">>, <<"E", "C">>} :
          \E i \in 1..Len(lastOp.marks) : lastOp.marks[i] = e

====
